---- MODULE Spec2Model ----
(***************************************************************************)
(* Task orchestration engine of dev-agent-harness: the durable feature     *)
(* list (feature_list.json), next-feature selection, the coding session    *)
(* (CodingAgent.runSession) driven by the run/loop commands, the external  *)
(* collaborator that edits the store during a session, the add / atomize   *)
(* commands (load, collaborator call, push, save) and the bulk reset.      *)
(*                                                                         *)
(* Every await of the source is a point where another CLI process working  *)
(* on the same workspace can take a step.  A handler is cut where a step   *)
(* of another process in between can change what it does: between its      *)
(* read of feature_list.json and its later write or re-read of it.  Steps  *)
(* that only touch the handler's own locals are joined to the next one,    *)
(* and the reset (load, prompt, save) is taken as one step.                *)
(***************************************************************************)
EXTENDS Integers, Sequences, FiniteSets, TLC

\* ---------------------------------------------------------------- bounds
MaxFeatures == 3      \* longest feature list the model lets the store grow to
MaxCommands == 2      \* run, loop, add, atomize and reset invocations per behaviour
MaxSessionCap == 2    \* largest --max value of the loop command
MaxLen == 3           \* longest list fed to the selection functions alone
MaxMatches == 2       \* most objects strategy 5 of parseFeature finds in an output
MaxJournal == 2       \* most entries the collaborator appends to progress.log
MaxAppends == 2       \* most appendToProgressLog calls on one progress.log
MaxEntryLen == 2      \* longest entry, in characters, handed to appendToProgressLog
MaxLastN == 2         \* largest lastN handed to getProgressLog
MaxTextLen == 5       \* longest output, in tokens, scanned by strategy 3
MaxStream == 3        \* most messages of one runAgentQuery stream
MaxTotal == 201       \* longest feature list the progress statistics are taken of

\* ---------------------------------------------------------------- data
Ids == {"F1", "F2"}

\* Feature.type; "none" stands for an absent type field
FeatureTypes == {"none", "feature", "bugfix"}

\* the --type / run-variant filter; "any" stands for no filter
Filters == {"any", "feature", "bugfix"}

\* a Feature, reduced to the fields selection and verification read
FeatureRec == [id : Ids, type : FeatureTypes, passes : BOOLEAN]

\* the features a collaborator answer is drawn from: an untyped one, a bugfix
\* under another id, and one that arrives already marked as passing
Generated ==
  { [id |-> "F1", type |-> "none", passes |-> FALSE],
    [id |-> "F2", type |-> "bugfix", passes |-> FALSE],
    [id |-> "F2", type |-> "feature", passes |-> TRUE] }

RECURSIVE SeqsUpTo(_, _)
SeqsUpTo(S, n) ==
  IF n = 0 THEN {<<>>}
  ELSE LET shorter == SeqsUpTo(S, n - 1)
       IN shorter \cup {Append(s, x) : s \in {t \in shorter : Len(t) = n - 1}, x \in S}

NoTask == [idx |-> 0, id |-> "", type |-> "none"]

TaskAt(feats, i) == [idx |-> i, id |-> feats[i].id, type |-> feats[i].type]

VARIABLES
  projectDir,   \* whether the project directory exists
  fileState,    \* feature_list.json: "absent", "corrupt" or "ok"
  features,     \* the features array of feature_list.json when it is "ok"
  cmds,         \* run, loop, add, atomize and reset invocations started so far
  rpc,          \* run/loop process: position in the handler
  rmode,        \* "run" or "loop"
  rfilter,      \* featureType of runCommandHandler / loop --type
  session,      \* loop: let session
  maxSessions,  \* loop: const maxSessions
  selected,     \* the feature the CLI handler selected (const feature)
  target,       \* runSession: sessionContext.feature
  collab,       \* runSession: outcome of runAgentQuery
  cerr,         \* runSession: result.error of runAgentQuery ("" when undefined)
  result,       \* SessionResult returned by runSession
  announced,    \* loop: the "all features complete" message was printed
  apc,          \* add/atomize process: position in the handler
  akind,        \* "add" or "atomize"
  alist,        \* addFeature / atomizeFeature: const featureList (loaded copy)
  aincoming,    \* the feature(s) parsed from the collaborator output
  aresult,      \* outcome of the last addFeature / atomizeFeature
  sout,         \* status command: what it printed
  everDone,     \* history: positions whose passes was true since the last reset
  sessFlips,    \* history: positions that went false -> true in this session
  calls,        \* history: collaborator invocations of the current run / loop
  pending0,     \* history: pending features in the store when the loop started
  clean,        \* history: every session of this loop flipped its target and
                \* nothing else, and no other writer touched the store
  prevTarget,   \* history: position the previous session of this loop targeted
  wpc,          \* saveFeatureList in progress: "idle" or "truncated"
  wlist,        \* saveFeatureList: the list being written
  wold,         \* saveFeatureList: what a load gave just before the save began
  loaded,       \* what a concurrent reader's loadFeatureList returned
  xpc,          \* add / atomize / init after runAgentQuery: "off", "output", "parsed", "done"
  xkind,        \* which of them: "add", "atomize" or "init"
  xcands,       \* result.output, as the text each extraction strategy picks out of it
  xout,         \* what parseFeature / parseFeatures / parseFeatureList returned
  xlist,        \* feature_list.json with every field of its features
  xdebug,       \* whether result.output was written to a debug file of the workspace
  xres,         \* the result returned: success, and the list handed to the save
  journal,      \* progress.log: the entries appended to it
  progressFile, \* progress.log: "absent", "unreadable" or "ok"
  gitRepo,      \* whether `git log` succeeds in the workspace
  dirReadable,  \* whether readdir of the workspace succeeds
  inflight,     \* runAgentQuery calls of the run/loop process not yet resolved
  persona,      \* runSession: queryOptions.systemPrompt
  ctx,          \* runSession: const sessionContext
  commitHash,   \* runSession: let commitHash ("undefined" or the short hash)
  rout,         \* reset command: "none", "notfound", "cancelled" or "done"
  ptext,        \* progress.log: its content, a sequence of characters
  pentries,     \* history: the entries handed to appendToProgressLog, in order
  pread,        \* what the last getProgressLog(lastN) returned
  stext,        \* parseFeature strategy 3: output, as braces and other tokens
  scand,        \* parseFeature strategy 3: featureMatch, startIndex, endIndex, jsonStr
  snext,        \* parseFeature after strategy 3: "scan", "try", "returned" or "strategy4"
  qpc,          \* runAgentQuery: "off", "stream", "returned" or "rejected"
  qin,          \* runAgentQuery: what the message stream will deliver, in order
  qpos,         \* runAgentQuery: position of the next message of the stream
  qst,          \* runAgentQuery: let success, let error ("" when undefined)
  qres,         \* runAgentQuery: the AgentQueryResult its promise resolved to
  stats         \* what getProgressStatsByType returned

vars == <<projectDir, fileState, features, cmds, rpc, rmode, rfilter, session, maxSessions,
          selected, target, collab, cerr, result, announced, apc, akind, alist,
          aincoming, aresult, sout, everDone, sessFlips, calls, pending0, clean,
          prevTarget, wpc, wlist, wold, loaded, xpc, xkind, xcands, xout, xlist,
          xdebug, xres, journal, progressFile, gitRepo, dirReadable, inflight,
          persona, ctx, commitHash, rout, ptext,
          pentries, pread, stext, scand, snext, qpc, qin, qpos, qst, qres,
          stats>>

storeVars == <<projectDir, fileState, features>>
histVars == <<everDone, sessFlips>>
loopHist == <<calls, pending0, clean, prevTarget>>
runVars == <<rpc, rmode, rfilter, session, maxSessions, selected, target, collab, cerr,
             result, announced>>
addVars == <<apc, akind, alist, aincoming, aresult>>
saveVars == <<wpc, wlist, wold, loaded>>
\* what the run, loop, add, atomize, reset and init handlers above never touch
extVars == <<xpc, xkind, xcands, xout, xlist, xdebug, xres>>
envVars == <<journal, progressFile, gitRepo, dirReadable>>
callVars == <<inflight, persona, ctx>>
reportVars == <<commitHash>>
\* what the commands modelled on their own (reset, ...) keep
logVars == <<ptext, pentries, pread>>
scanVars == <<stext, scand, snext>>
queryVars == <<qpc, qin, qpos, qst, qres>>
toolVars == <<rout, logVars, scanVars, queryVars, stats>>
\* the tool variables a command modelled on its own leaves alone
toolsButReset == <<logVars, scanVars, queryVars, stats>>
toolsButLog == <<rout, scanVars, queryVars, stats>>
toolsButScan == <<rout, logVars, queryVars, stats>>
toolsButQuery == <<rout, logVars, scanVars, stats>>
toolsButStats == <<rout, logVars, scanVars, queryVars>>
sideVars == <<saveVars, extVars, envVars, callVars, reportVars, toolVars>>

\* ---------------------------------------------------------------- store
\* ContextBuilder.loadFeatureList: null when the file is missing or unparseable
loadFeatureList(fs, feats) ==
  IF fs = "ok" THEN [ok |-> TRUE, features |-> feats]
  ELSE [ok |-> FALSE, features |-> <<>>]

\* Array.prototype.find((f) => !f.passes), as a left-to-right scan from i
RECURSIVE FindPending(_, _)
FindPending(feats, i) ==
  IF i > Len(feats) THEN 0
  ELSE IF ~feats[i].passes THEN i
  ELSE FindPending(feats, i + 1)

\* the predicate of getNextFeatureByType without the untyped-feature clause
MatchesTypeExact(f, type) ==
  ~f.passes /\ f.type = type

\* the predicate of getNextFeatureByType
MatchesType(f, type) ==
  ~f.passes /\ (f.type = type \/ (f.type = "none" /\ type = "feature"))

RECURSIVE FindPendingByType(_, _, _)
FindPendingByType(feats, type, i) ==
  IF i > Len(feats) THEN 0
  ELSE IF MatchesType(feats[i], type) THEN i
  ELSE FindPendingByType(feats, type, i + 1)

\* a getNextFeature that returns the last pending feature of the list
getNextFeatureLast(fs, feats) ==
  LET fl == loadFeatureList(fs, feats)
      pend == {i \in 1..Len(fl.features) : ~fl.features[i].passes}
  IN IF ~fl.ok \/ pend = {} THEN 0
     ELSE CHOOSE i \in pend : \A j \in pend : j <= i

\* ContextBuilder.getNextFeature: position of the feature returned, 0 for null
getNextFeature(fs, feats) ==
  LET fl == loadFeatureList(fs, feats)
  IN IF ~fl.ok THEN 0 ELSE FindPending(fl.features, 1)

\* ContextBuilder.getNextFeatureByType
getNextFeatureByType(fs, feats, type) ==
  LET fl == loadFeatureList(fs, feats)
  IN IF ~fl.ok THEN 0 ELSE FindPendingByType(fl.features, type, 1)

\* featureType ? getNextFeatureByType(featureType) : getNextFeature()
cliSelect(fs, feats, filter) ==
  IF filter = "any" THEN getNextFeature(fs, feats)
  ELSE getNextFeatureByType(fs, feats, filter)

\* features.find((f) => f.id === id): position of the first holder of id, 0 if none
RECURSIVE FindById(_, _, _)
FindById(feats, id, i) ==
  IF i > Len(feats) THEN 0
  ELSE IF feats[i].id = id THEN i
  ELSE FindById(feats, id, i + 1)

\* history of the passes flags written to the store
DoneNow(feats) == {i \in 1..Len(feats) : feats[i].passes}
Flipped(old, new) ==
  {i \in 1..Len(new) : new[i].passes /\ i <= Len(old) /\ ~old[i].passes}

\* ---------------------------------------------------------------- init
NoResult == [success |-> FALSE, featureId |-> "", error |-> "", kind |-> "none"]

NotLoaded == [ok |-> FALSE, features |-> <<>>]

SaveIdle ==
  /\ wpc = "idle" /\ wlist = <<>>
  /\ wold = NotLoaded
  /\ loaded = NotLoaded

\* ---- JSON texts and values of the extractor
\* A property of a parsed object is kept as what the validation reads of it:
\* "undefined" (absent), "" (empty string) or a non-empty string for id, title
\* and description; "undefined", "string" (not an array), "[]" or "[c]" (an
\* array of one criterion) for acceptance_criteria; "undefined", "string",
\* "true" or "false" for passes.
NoProps ==
  [id |-> "undefined", title |-> "undefined", description |-> "undefined",
   acceptance_criteria |-> "undefined", passes |-> "undefined"]

GoodProps(id, passes) ==
  [id |-> id, title |-> "t", description |-> "d",
   acceptance_criteria |-> "[c]", passes |-> passes]

\* a JSON text: tag "invalid" is a text JSON.parse rejects; "null", "number",
\* "object" (with props p), "array" (of items) and "list" (an object whose
\* features property is the array items) are what it parses to
Json(tag, p, items) == [tag |-> tag, p |-> p, items |-> items]
Garbage == Json("invalid", NoProps, <<>>)
JNull == Json("null", NoProps, <<>>)
JNumber == Json("number", NoProps, <<>>)
JObject(p) == Json("object", p, <<>>)
JArray(items) == Json("array", NoProps, items)
JList(items) == Json("list", NoProps, items)

\* JSON.parse: throws on an invalid text
JSONparse(text) ==
  IF text.tag = "invalid"
  THEN [throws |-> TRUE, value |-> JNull]
  ELSE [throws |-> FALSE, value |-> text]

\* JavaScript truthiness of a property value
Truthy(x) == x \notin {"undefined", ""}

NoFile == Json("absent", NoProps, <<>>)
NoOut == [found |-> FALSE, value |-> JNull]
NoXRes == [success |-> FALSE, error |-> "none"]

ExtIdle ==
  /\ xpc = "off" /\ xkind = "add" /\ xcands = <<>> /\ xout = NoOut
  /\ xlist = NoFile /\ xdebug = FALSE /\ xres = NoXRes

\* progress.log as the initializer leaves it, in a git repository
EnvIdle ==
  journal = <<>> /\ progressFile = "ok" /\ gitRepo = TRUE /\ dirReadable = TRUE

NoCtx == [idx |-> 0, progressLog |-> <<>>, gitLog |-> "", projectStructure |-> ""]

CallIdle == inflight = 0 /\ persona = "none" /\ ctx = NoCtx

ReportIdle == commitHash = "undefined"

NoRead == [lastN |-> 0, text |-> <<>>]

LogIdle == ptext = <<>> /\ pentries = <<>> /\ pread = NoRead

NoCand == [matched |-> FALSE, startIndex |-> 0, endIndex |-> 0, jsonStr |-> <<>>]

ScanIdle == stext = <<>> /\ scand = NoCand /\ snext = "off"

NoQuery == [success |-> FALSE, error |-> ""]

QueryIdle ==
  qpc = "off" /\ qin = <<>> /\ qpos = 1 /\ qst = NoQuery /\ qres = NoQuery

NoStats ==
  [computed |-> FALSE, total |-> 0, completed |-> 0, pending |-> 0, percentage |-> 0,
   byType |-> [t \in {} |-> [completed |-> 0, pending |-> 0]]]

ToolIdle == rout = "none" /\ LogIdle /\ ScanIdle /\ QueryIdle /\ stats = NoStats

SideIdle == SaveIdle /\ ExtIdle /\ EnvIdle /\ CallIdle /\ ReportIdle /\ ToolIdle

AddIdle ==
  apc = "idle" /\ akind = "add" /\ alist = <<>> /\ aincoming = <<>> /\ aresult = "none"

RunIdle ==
  /\ rpc = "idle" /\ rmode = "run" /\ rfilter = "any"
  /\ session = 0 /\ maxSessions = 0
  /\ selected = NoTask /\ target = NoTask /\ collab = "none" /\ cerr = ""
  /\ result = NoResult /\ announced = FALSE
  /\ calls = 0 /\ pending0 = 0 /\ clean = TRUE /\ prevTarget = 0

Init ==
  /\ \/ projectDir = FALSE /\ fileState = "absent"
     \/ projectDir = TRUE /\ fileState = "corrupt"
  /\ features = <<>>
  /\ cmds = 0
  /\ RunIdle
  /\ AddIdle
  /\ sout = "none"
  /\ SideIdle
  /\ everDone = {} /\ sessFlips = {}

\* what a write of newFeats to feature_list.json adds to the histories
History(newFeats, isReset) ==
  /\ everDone' = IF isReset THEN DoneNow(newFeats) ELSE everDone \cup DoneNow(newFeats)
  /\ sessFlips' = IF rpc = "call"
                  THEN sessFlips \cup Flipped(features, newFeats)
                  ELSE sessFlips

\* a write by anything but the collaborator of the running session ends the
\* undisturbed stretch of a loop (pending0 is kept for that stretch only)
Interferes ==
  /\ clean' = (IF rmode = "loop" THEN FALSE ELSE clean)
  /\ pending0' = (IF rmode = "loop" THEN 0 ELSE pending0)
  /\ UNCHANGED <<calls, prevTarget>>

\* ---------------------------------------------------------------- init command
\* InitializerAgent.initialize: directory check, mkdir, collaborator call,
\* parseFeatureList (JSON.parse with no validation), writeFile.
\* (on an existing directory it returns failure and touches nothing: no step)
Initialize(answer) ==
  /\ ~projectDir
  /\ projectDir' = TRUE
  /\ IF answer.kind = "parsed"
     THEN /\ fileState' = "ok"
          /\ features' = answer.batch
          /\ History(answer.batch, TRUE)
          /\ Interferes
     ELSE UNCHANGED <<fileState, features, histVars, loopHist>>
  /\ UNCHANGED <<cmds, runVars, addVars, sout, sideVars>>

\* ---------------------------------------------------------------- run / loop
\* runCommandHandler up to the call of runSession: existsSync check (error
\* message, then exit 1), selection of the next feature (exit 0 when there is none)
RunStart(filter) ==
  /\ rpc = "idle"
  /\ cmds < MaxCommands
  /\ cmds' = cmds + 1
  /\ LET i == cliSelect(fileState, features, filter)
     IN IF fileState = "absent"
        THEN /\ rpc' = "failed"
             /\ UNCHANGED <<rmode, rfilter, session, maxSessions, selected, target,
                            collab, cerr, result, announced>>
        ELSE IF i = 0
        THEN UNCHANGED runVars
        ELSE /\ rpc' = "build" /\ rmode' = "run" /\ rfilter' = filter
             /\ selected' = TaskAt(features, i)
             /\ UNCHANGED <<session, maxSessions, target, collab, cerr, result,
                            announced>>
  /\ UNCHANGED <<storeVars, addVars, histVars, loopHist, sout, sideVars>>

\* the tasks of the store; none when the store cannot be loaded
Tasks == IF fileState = "ok" THEN features ELSE <<>>

PendingCount(list) == Cardinality({i \in 1..Len(list) : ~list[i].passes})

\* a loop command without the existsSync check
LoopStartUnchecked(filter, max) ==
  /\ rpc = "idle"
  /\ cmds < MaxCommands
  /\ cmds' = cmds + 1
  /\ rpc' = "select" /\ rmode' = "loop" /\ rfilter' = filter
  /\ session' = 0 /\ maxSessions' = max
  /\ UNCHANGED <<selected, target, collab, cerr, result, announced>>
  /\ pending0' = PendingCount(Tasks)
  /\ UNCHANGED <<calls, clean, prevTarget>>
  /\ UNCHANGED <<storeVars, addVars, histVars, sout, sideVars>>

\* loop command up to the existsSync check (error message, then exit 1);
\* let session = 0
LoopStart(filter, max) ==
  /\ rpc = "idle"
  /\ cmds < MaxCommands
  /\ cmds' = cmds + 1
  /\ IF fileState = "absent"
     THEN /\ rpc' = "failed"
          /\ UNCHANGED <<rmode, rfilter, session, maxSessions, selected, target,
                         collab, cerr, result, announced>>
          /\ UNCHANGED loopHist
     ELSE /\ rpc' = "select" /\ rmode' = "loop" /\ rfilter' = filter
          /\ session' = 0 /\ maxSessions' = max
          /\ UNCHANGED <<selected, target, collab, cerr, result, announced>>
          /\ pending0' = PendingCount(Tasks)
          /\ UNCHANGED <<calls, clean, prevTarget>>
  /\ UNCHANGED <<storeVars, addVars, histVars, sout, sideVars>>

\* run / loop after the error message of the existsSync check: process.exit(1)
RunExit ==
  /\ rpc = "failed"
  /\ rpc' = "idle"
  /\ UNCHANGED <<rmode, rfilter, session, maxSessions, selected, target, collab, cerr,
                 result, announced>>
  /\ UNCHANGED <<cmds, storeVars, addVars, histVars, loopHist, sout, sideVars>>

\* loop command: while (session < maxSessions) { session++; select; if there is
\* none print "all features complete" and break
LoopSelect ==
  /\ rpc = "select"
  /\ IF session < maxSessions
     THEN /\ session' = session + 1
          /\ LET i == cliSelect(fileState, features, rfilter)
             IN IF i = 0
                THEN rpc' = "final" /\ announced' = TRUE /\ UNCHANGED selected
                ELSE /\ rpc' = "build" /\ selected' = TaskAt(features, i)
                     /\ UNCHANGED announced
     ELSE /\ rpc' = "final"
          /\ UNCHANGED <<session, selected, announced>>
  /\ UNCHANGED <<rmode, rfilter, maxSessions, target, collab, cerr, result>>
  /\ UNCHANGED <<cmds, storeVars, addVars, histVars, loopHist, sout, sideVars>>

\* ContextBuilder.getProgressLog: the entries of progress.log (the last 10),
\* '' when the file is missing or cannot be read
getProgressLog(file, entries) ==
  IF file = "absent" THEN <<>>
  ELSE IF file = "unreadable" THEN <<>>
  ELSE entries

\* a getGitLog that returns the empty string when git fails
getGitLogEmpty(repo) ==
  IF repo THEN "commits" ELSE ""

\* ContextBuilder.getGitLog
getGitLog(repo) ==
  IF repo THEN "commits" ELSE "(no git history)"

\* ContextBuilder.getProjectStructure: './' and the entries readdir gave
getProjectStructure(readable) == IF readable THEN "./ entries" ELSE "./"

\* ContextBuilder.buildSessionContext: position of the feature put in the context
buildSessionContext(fs, feats) == getNextFeature(fs, feats)

\* the SessionContext returned for the feature at position i
SessionContext(i) ==
  [idx |-> i,
   progressLog |-> getProgressLog(progressFile, journal),
   gitLog |-> getGitLog(gitRepo),
   projectStructure |-> getProjectStructure(dirReadable)]

\* a getSystemPromptForType without the 'docs' case
getSystemPromptForTypeNoDocs(type) ==
  CASE type = "refactoring" -> "REFACTORING_AGENT_SYSTEM_PROMPT"
    [] type = "bugfix" -> "BUGFIX_AGENT_SYSTEM_PROMPT"
    [] type = "improvement" -> "IMPROVEMENT_AGENT_SYSTEM_PROMPT"
    [] OTHER -> "CODING_AGENT_SYSTEM_PROMPT"

\* prompts/coding-agent.ts getSystemPromptForType
getSystemPromptForType(type) ==
  CASE type = "refactoring" -> "REFACTORING_AGENT_SYSTEM_PROMPT"
    [] type = "bugfix" -> "BUGFIX_AGENT_SYSTEM_PROMPT"
    [] type = "improvement" -> "IMPROVEMENT_AGENT_SYSTEM_PROMPT"
    [] type = "docs" -> "DOCS_AGENT_SYSTEM_PROMPT"
    [] type = "feature" -> "CODING_AGENT_SYSTEM_PROMPT"
    [] OTHER -> "CODING_AGENT_SYSTEM_PROMPT"

\* CodingAgent.runSession, step 1: build the context or return "no pending features"
SessionBuild ==
  /\ rpc = "build"
  /\ LET i == buildSessionContext(fileState, features)
     IN IF i = 0
        THEN /\ rpc' = "returned"
             /\ result' = [success |-> FALSE, featureId |-> "",
                           error |-> "nopending", kind |-> "empty"]
             /\ UNCHANGED <<target, calls, callVars>>
        ELSE /\ rpc' = "call"
             /\ target' = TaskAt(features, i)
             /\ ctx' = SessionContext(i)
             /\ persona' = getSystemPromptForType(features[i].type)
             /\ inflight' = inflight + 1
             /\ calls' = calls + 1
             /\ UNCHANGED result
  /\ sessFlips' = {}
  /\ UNCHANGED <<rmode, rfilter, session, maxSessions, selected, collab, cerr,
                 announced>>
  /\ UNCHANGED <<cmds, storeVars, addVars, everDone, pending0, clean, prevTarget, sout>>
  /\ UNCHANGED <<saveVars, extVars, envVars, reportVars, toolVars>>

\* the collaborator, while runAgentQuery is in flight, marks a pending feature
\* as passing in feature_list.json (the target or any other one)
CollabFlip(i) ==
  /\ rpc = "call"
  /\ fileState = "ok"
  /\ i \in 1..Len(features)
  /\ ~features[i].passes
  /\ features' = [features EXCEPT ![i].passes = TRUE]
  /\ History(features', FALSE)
  /\ clean' = (IF rmode = "loop" THEN clean /\ i = target.idx ELSE clean)
  /\ pending0' = (IF clean' THEN pending0 ELSE 0)
  /\ UNCHANGED <<cmds, projectDir, fileState, runVars, addVars, calls, prevTarget, sout, sideVars>>

\* CodingAgent.runSession, step 4: updatedFeature?.passes === true on the re-read
TargetPasses(fs, feats, tgt) ==
  LET fl == loadFeatureList(fs, feats)
      i == IF fl.ok THEN FindById(fl.features, tgt.id, 1) ELSE 0
  IN i # 0 /\ fl.features[i].passes

\* runSession, step 5: `git rev-parse --short HEAD` inside try/catch; the catch
\* leaves commitHash undefined
revParse(repo) ==
  IF repo THEN "hash" ELSE "undefined"

\* a runSession that counts a session as successful only when a commit
\* reference could be captured
SessionVerdictCommitted(outcome, err, fs, feats, tgt) ==
  IF outcome # "success"
  THEN [success |-> FALSE, featureId |-> tgt.id,
        error |-> IF err # "" THEN err ELSE "sdkfailed", kind |-> "error"]
  ELSE IF TargetPasses(fs, feats, tgt) /\ revParse(gitRepo) # "undefined"
       THEN [success |-> TRUE, featureId |-> tgt.id, error |-> "", kind |-> "completed"]
       ELSE [success |-> FALSE, featureId |-> tgt.id, error |-> "", kind |-> "incomplete"]

\* a runSession that takes the collaborator's word for the outcome
SessionVerdictTrusting(outcome, err, fs, feats, tgt) ==
  IF outcome # "success"
  THEN [success |-> FALSE, featureId |-> tgt.id,
        error |-> IF err # "" THEN err ELSE "sdkfailed", kind |-> "error"]
  ELSE [success |-> TRUE, featureId |-> tgt.id, error |-> "", kind |-> "completed"]

\* a runSession that reports every collaborator failure with its own message
SessionVerdictGeneric(outcome, err, fs, feats, tgt) ==
  IF outcome # "success"
  THEN [success |-> FALSE, featureId |-> tgt.id, error |-> "sdkfailed", kind |-> "error"]
  ELSE IF TargetPasses(fs, feats, tgt)
       THEN [success |-> TRUE, featureId |-> tgt.id, error |-> "", kind |-> "completed"]
       ELSE [success |-> FALSE, featureId |-> tgt.id, error |-> "", kind |-> "incomplete"]

\* CodingAgent.runSession after runAgentQuery: the SessionResult returned
\* (error: result.error || 'Claude Agent SDK session failed')
SessionVerdict(outcome, err, fs, feats, tgt) ==
  IF outcome # "success"
  THEN [success |-> FALSE, featureId |-> tgt.id,
        error |-> IF err # "" THEN err ELSE "sdkfailed", kind |-> "error"]
  ELSE IF TargetPasses(fs, feats, tgt)
       THEN [success |-> TRUE, featureId |-> tgt.id, error |-> "", kind |-> "completed"]
       ELSE [success |-> FALSE, featureId |-> tgt.id, error |-> "", kind |-> "incomplete"]

\* the error texts runAgentQuery can hand back: none ("", the stream ended with
\* no result message or with a non-success result that carries no errors) or
\* the message of the exception it caught / the joined errors of the result
ErrorTexts == {"", "E1"}

\* a runSession that itself marks the target as passing when the collaborator
\* reports success
SessionCheckMarking(outcome, err) ==
  /\ rpc = "call"
  /\ outcome = "success" => err = ""
  /\ rpc' = "returned"
  /\ collab' = outcome
  /\ cerr' = err
  /\ features' = IF outcome = "success" /\ fileState = "ok" /\ target.idx \in 1..Len(features)
                 THEN [features EXCEPT ![target.idx].passes = TRUE]
                 ELSE features
  /\ result' = SessionVerdict(outcome, err, fileState, features', target)
  /\ target' = NoTask
  /\ History(features', FALSE)
  /\ clean' = (IF rmode = "loop" THEN clean /\ sessFlips = {target.idx} ELSE clean)
  /\ pending0' = (IF clean' THEN pending0 ELSE 0)
  /\ prevTarget' = (IF rmode = "loop" THEN target.idx ELSE prevTarget)
  /\ UNCHANGED <<rmode, rfilter, session, maxSessions, selected, announced>>
  /\ inflight' = inflight - 1 /\ persona' = "none" /\ ctx' = NoCtx
  /\ UNCHANGED <<cmds, projectDir, fileState, addVars, calls, sout>>
  /\ commitHash' = (IF outcome = "success" THEN revParse(gitRepo) ELSE "undefined")
  /\ UNCHANGED <<saveVars, extVars, envVars, toolVars>>

\* a runSession that returns while its runAgentQuery call is still pending
SessionCheckDetached(outcome, err) ==
  /\ rpc = "call"
  /\ outcome = "success" => err = ""
  /\ rpc' = "returned"
  /\ collab' = outcome
  /\ cerr' = err
  /\ result' = SessionVerdict(outcome, err, fileState, features, target)
  /\ target' = NoTask
  /\ clean' = (IF rmode = "loop" THEN clean /\ sessFlips = {target.idx} ELSE clean)
  /\ pending0' = (IF clean' THEN pending0 ELSE 0)
  /\ prevTarget' = (IF rmode = "loop" THEN target.idx ELSE prevTarget)
  /\ persona' = "none" /\ ctx' = NoCtx
  /\ UNCHANGED <<rmode, rfilter, session, maxSessions, selected, announced, inflight>>
  /\ UNCHANGED <<cmds, storeVars, addVars, histVars, calls, sout>>
  /\ commitHash' = (IF outcome = "success" THEN revParse(gitRepo) ELSE "undefined")
  /\ UNCHANGED <<saveVars, extVars, envVars, toolVars>>

\* runAgentQuery resolves ("success" for a terminal result of subtype success,
\* "failure" for any other end of the stream or a caught exception) and
\* runSession runs to its return
SessionCheck(outcome, err) ==
  /\ rpc = "call"
  /\ outcome = "success" => err = ""
  /\ rpc' = "returned"
  /\ collab' = outcome
  /\ cerr' = err
  /\ result' = SessionVerdict(outcome, err, fileState, features, target)
  /\ target' = NoTask
  /\ clean' = (IF rmode = "loop" THEN clean /\ sessFlips = {target.idx} ELSE clean)
  /\ pending0' = (IF clean' THEN pending0 ELSE 0)
  /\ prevTarget' = (IF rmode = "loop" THEN target.idx ELSE prevTarget)
  /\ inflight' = inflight - 1 /\ persona' = "none" /\ ctx' = NoCtx
  /\ UNCHANGED <<rmode, rfilter, session, maxSessions, selected, announced>>
  /\ UNCHANGED <<cmds, storeVars, addVars, histVars, calls, sout>>
  /\ commitHash' = (IF outcome = "success" THEN revParse(gitRepo) ELSE "undefined")
  /\ UNCHANGED <<saveVars, extVars, envVars, toolVars>>

\* a loop that leaves the while when a session did not succeed
SessionReturnedStopping ==
  /\ rpc = "returned"
  /\ IF rmode = "run"
     THEN rpc' = "idle" /\ rfilter' = "any"
     ELSE /\ rpc' = (IF result.success THEN "select" ELSE "final")
          /\ UNCHANGED rfilter
  /\ selected' = NoTask /\ target' = NoTask /\ collab' = "none" /\ cerr' = ""
  /\ result' = NoResult
  /\ sessFlips' = {}
  /\ calls' = (IF rmode = "run" THEN 0 ELSE calls)
  /\ commitHash' = "undefined"
  /\ UNCHANGED <<rmode, session, maxSessions, announced>>
  /\ UNCHANGED <<cmds, storeVars, addVars, everDone, pending0, clean, prevTarget, sout>>
  /\ UNCHANGED <<saveVars, extVars, envVars, callVars, toolVars>>

\* the caller of runSession prints the result; run exits, loop sleeps and iterates
SessionReturned ==
  /\ rpc = "returned"
  /\ IF rmode = "run"
     THEN rpc' = "idle" /\ rfilter' = "any"
     ELSE rpc' = "select" /\ UNCHANGED rfilter
  /\ selected' = NoTask /\ target' = NoTask /\ collab' = "none" /\ cerr' = ""
  /\ result' = NoResult
  /\ sessFlips' = {}
  /\ calls' = (IF rmode = "run" THEN 0 ELSE calls)
  /\ commitHash' = "undefined"
  /\ UNCHANGED <<rmode, session, maxSessions, announced>>
  /\ UNCHANGED <<cmds, storeVars, addVars, everDone, pending0, clean, prevTarget, sout>>
  /\ UNCHANGED <<saveVars, extVars, envVars, callVars, toolVars>>

\* loop command after the while: final status
LoopFinal ==
  /\ rpc = "final"
  /\ rpc' = "idle" /\ rmode' = "run" /\ rfilter' = "any"
  /\ session' = 0 /\ maxSessions' = 0 /\ announced' = FALSE
  /\ UNCHANGED <<selected, target, collab, cerr, result>>
  /\ calls' = 0 /\ pending0' = 0 /\ clean' = TRUE /\ prevTarget' = 0
  /\ UNCHANGED <<cmds, storeVars, addVars, histVars, sout, sideVars>>

\* ---------------------------------------------------------------- add / atomize
\* what the collaborator call of add / atomize / init yields after extraction:
\* "failed" (unsuccessful or empty output), "unparsed" (no strategy gave a
\* validated candidate) or "parsed" with the extracted feature(s)
Batches ==
  {<<>>} \cup {<<f>> : f \in Generated} \cup {<<f, g>> : f, g \in Generated}

Answers(kind) ==
  {[kind |-> k, batch |-> <<>>] : k \in {"failed", "unparsed"}}
  \cup {[kind |-> "parsed", batch |-> b] :
          b \in {c \in Batches : IF kind = "add" THEN Len(c) = 1 ELSE TRUE}}

\* addFeatureHandler / atomizeFeatureHandler existsSync check, then
\* addFeature / atomizeFeature up to loadFeatureList
AddStart(kind) ==
  /\ apc = "idle"
  /\ cmds < MaxCommands
  /\ cmds' = cmds + 1
  /\ akind' = kind
  /\ aincoming' = <<>>
  /\ IF fileState = "absent"
     THEN apc' = "returned" /\ aresult' = "exit" /\ alist' = <<>>
     ELSE LET fl == loadFeatureList(fileState, features)
          IN IF ~fl.ok
             THEN apc' = "returned" /\ aresult' = "noload" /\ alist' = <<>>
             ELSE apc' = "call" /\ aresult' = "none" /\ alist' = fl.features
  /\ UNCHANGED <<storeVars, runVars, histVars, loopHist, sout, sideVars>>

IdsOf(list) == {list[i].id : i \in 1..Len(list)}

\* an addFeature that puts the new feature in front (unshift for push)
addFeaturePushFront(list, f) ==
  IF \E i \in 1..Len(list) : list[i].id = f.id
  THEN [ok |-> FALSE, features |-> list]
  ELSE [ok |-> TRUE, features |-> <<f>> \o list]

\* addFeature: duplicate check against the loaded list, push
addFeaturePush(list, f) ==
  IF \E i \in 1..Len(list) : list[i].id = f.id
  THEN [ok |-> FALSE, features |-> list]
  ELSE [ok |-> TRUE, features |-> Append(list, f)]

\* an atomizeFeature that drops the colliding features and pushes the others
atomizeFeaturePushPartial(list, batch) ==
  LET existingIds == IdsOf(list)
      fresh == SelectSeq(batch, LAMBDA f : f.id \notin existingIds)
  IN [ok |-> TRUE, features |-> list \o fresh]

\* atomizeFeature: duplicates = features.filter(existingIds.has), push(...features)
atomizeFeaturePush(list, batch) ==
  LET existingIds == IdsOf(list)
      duplicates == SelectSeq(batch, LAMBDA f : f.id \in existingIds)
  IN IF Len(duplicates) > 0
     THEN [ok |-> FALSE, features |-> list]
     ELSE [ok |-> TRUE, features |-> list \o batch]

\* addFeature / atomizeFeature from the return of runAgentQuery to the end:
\* extraction, validation, duplicate check, push and saveFeatureList; what is
\* left on return is the result handed to the CLI handler
AddFinish(answer) ==
  /\ apc = "call"
  /\ answer \in Answers(akind)
  /\ Len(alist) + Len(answer.batch) <= MaxFeatures
  /\ apc' = "returned"
  /\ akind' = "add" /\ alist' = <<>>
  /\ aincoming' = answer.batch
  /\ LET pushed == IF akind = "add"
                   THEN addFeaturePush(alist, answer.batch[1])
                   ELSE atomizeFeaturePush(alist, answer.batch)
     IN IF answer.kind # "parsed" \/ Len(answer.batch) = 0
        THEN /\ aresult' = answer.kind
             /\ UNCHANGED <<storeVars, histVars, loopHist, sout, sideVars>>
        ELSE IF ~pushed.ok
        THEN /\ aresult' = "duplicate"
             /\ UNCHANGED <<storeVars, histVars, loopHist, sout, sideVars>>
        ELSE /\ aresult' = "ok"
             /\ fileState' = "ok"
             /\ features' = pushed.features
             /\ History(pushed.features, FALSE)
             /\ Interferes
             /\ UNCHANGED <<projectDir, sout, sideVars>>
  /\ UNCHANGED <<cmds, runVars>>

\* addFeatureHandler / atomizeFeatureHandler: the result is printed, the process ends
AddReturned ==
  /\ apc = "returned"
  /\ apc' = "idle" /\ akind' = "add" /\ alist' = <<>> /\ aincoming' = <<>> /\ aresult' = "none"
  /\ UNCHANGED <<cmds, storeVars, runVars, histVars, loopHist, sout, sideVars>>

\* ---------------------------------------------------------------- reset
\* a reset that rebuilds every feature from its id alone
resetAllRebuilding(list) ==
  [i \in 1..Len(list) |-> [id |-> list[i].id, type |-> "none", passes |-> FALSE]]

\* for (const feature of featureList.features) feature.passes = false
resetAll(list) == [i \in 1..Len(list) |-> [list[i] EXCEPT !.passes = FALSE]]

\* reset command: load, confirmation prompt, every passes set to false, save;
\* nothing is written when the list cannot be loaded or the answer is no
Reset(confirm) ==
  /\ cmds < MaxCommands
  /\ cmds' = cmds + 1
  /\ LET fl == loadFeatureList(fileState, features)
     IN /\ fl.ok
        /\ confirm
        /\ features' = resetAll(fl.features)
        /\ History(features', TRUE)
        /\ Interferes
  /\ UNCHANGED <<projectDir, fileState, runVars, addVars, sout, sideVars>>

\* ---------------------------------------------------------------- specification
Next ==
  \/ \E a \in Answers("init") : Initialize(a)
  \/ \E f \in Filters : RunStart(f)
  \/ \E f \in Filters, m \in 0..MaxSessionCap : LoopStart(f, m)
  \/ RunExit
  \/ LoopSelect
  \/ SessionBuild
  \/ \E i \in 1..MaxFeatures : CollabFlip(i)
  \/ \E o \in {"success", "failure"}, e \in ErrorTexts : SessionCheck(o, e)
  \/ SessionReturned
  \/ LoopFinal
  \/ \E k \in {"add", "atomize"} : AddStart(k)
  \/ \E k \in {"add", "atomize"} : \E a \in Answers(k) : AddFinish(a)
  \/ AddReturned
  \/ \E c \in BOOLEAN : Reset(c)

Spec == Init /\ [][Next]_vars

\* ---------------------------------------------------------------- selection alone
\* The selection functions applied by the run command to every feature list
\* of up to MaxLen features.
InitSelect ==
  /\ projectDir = TRUE
  /\ \/ fileState = "ok" /\ features \in SeqsUpTo(FeatureRec, MaxLen)
     \/ fileState \in {"absent", "corrupt"} /\ features = <<>>
  /\ cmds = 0
  /\ RunIdle
  /\ AddIdle
  /\ sout = "none"
  /\ SideIdle
  /\ everDone = DoneNow(features) /\ sessFlips = {}

NextSelect ==
  \/ \E f \in Filters : RunStart(f)
  \/ RunExit

SpecSelect == InitSelect /\ [][NextSelect]_vars

\* ---------------------------------------------------------------- loop alone
\* The loop command and the collaborator of its sessions, on every list of up
\* to MaxLen generated features and every session cap up to MaxLen + 1.
InitLoop ==
  /\ projectDir = TRUE
  /\ \/ fileState = "ok" /\ features \in SeqsUpTo(Generated, MaxLen)
     \/ fileState \in {"absent", "corrupt"} /\ features = <<>>
  /\ cmds = 0
  /\ RunIdle
  /\ AddIdle
  /\ sout = "none"
  /\ SideIdle
  /\ everDone = DoneNow(features) /\ sessFlips = {}

NextLoop ==
  \/ \E f \in Filters, m \in 0..(MaxLen + 1) : LoopStart(f, m)
  \/ RunExit
  \/ LoopSelect
  \/ SessionBuild
  \/ \E i \in 1..MaxLen : CollabFlip(i)
  \/ \E o \in {"success", "failure"}, e \in ErrorTexts : SessionCheck(o, e)
  \/ SessionReturned
  \/ LoopFinal

SpecLoop == InitLoop /\ [][NextLoop]_vars

\* ---------------------------------------------------------------- status
\* status command: existsSync check, loadFeatureList, getProgressStats, print
Status ==
  /\ sout = "none"
  /\ sout' = (IF fileState = "absent" THEN "notfound"
              ELSE IF ~loadFeatureList(fileState, features).ok THEN "noload"
              ELSE "shown")
  /\ UNCHANGED <<cmds, storeVars, runVars, addVars, histVars, loopHist, sideVars>>

\* status command: the process ends
StatusExit ==
  /\ sout # "none"
  /\ sout' = "none"
  /\ UNCHANGED <<cmds, storeVars, runVars, addVars, histVars, loopHist, sideVars>>

\* ---------------------------------------------------------------- command entry
\* The first step of run, loop, add, atomize and status, and the exits that
\* follow it, on every workspace of InitLoop.
NextEntry ==
  \/ \E f \in Filters : RunStart(f)
  \/ \E f \in Filters, m \in 0..MaxSessionCap : LoopStart(f, m)
  \/ RunExit
  \/ \E k \in {"add", "atomize"} : AddStart(k)
  \/ AddReturned
  \/ Status
  \/ StatusExit

SpecEntry == InitLoop /\ [][NextEntry]_vars

\* ---------------------------------------------------------------- save and load
\* what the handlers of run, loop, add, atomize, reset and status keep in
\* their own variables
handlerVars == <<cmds, runVars, addVars, loopHist, sout>>

\* the list the add / atomize commands (a feature pushed on the loaded list)
\* and the reset command (every passes set to false) hand to saveFeatureList
Saved(list, how, f) ==
  IF how = "reset" THEN resetAll(list) ELSE Append(list, f)

\* ContextBuilder.saveFeatureList, first half: writeFile opens the file for
\* writing, which truncates it; until the data is written the file exists
\* with a prefix of the new text, which JSON.parse rejects
SaveBegin(how, f) ==
  /\ wpc = "idle"
  /\ fileState = "ok"
  /\ how = "push" => Len(features) < MaxLen
  /\ wpc' = "truncated"
  /\ wlist' = Saved(features, how, f)
  /\ wold' = loadFeatureList(fileState, features)
  /\ fileState' = "corrupt"
  /\ features' = <<>>
  /\ UNCHANGED <<projectDir, loaded, histVars, handlerVars, extVars, envVars, callVars, reportVars, toolVars>>

\* ContextBuilder.saveFeatureList, second half: the text is written in full
SaveEnd ==
  /\ wpc = "truncated"
  /\ wpc' = "idle"
  /\ fileState' = "ok"
  /\ features' = wlist
  /\ History(wlist, FALSE)
  /\ UNCHANGED <<projectDir, wlist, wold, loaded, handlerVars, extVars, envVars, callVars, reportVars, toolVars>>

\* a loadFeatureList of another process, at any moment
Load ==
  /\ loaded' = loadFeatureList(fileState, features)
  /\ UNCHANGED <<storeVars, wpc, wlist, wold, histVars, handlerVars, extVars, envVars, callVars, reportVars, toolVars>>

NextSave ==
  \/ \E how \in {"push", "reset"}, f \in Generated : SaveBegin(how, f)
  \/ SaveEnd
  \/ Load

SpecSave == InitLoop /\ [][NextSave]_vars

\* ---------------------------------------------------------------- extraction
\* a validateFeature without the acceptance_criteria.length > 0 check
PropsValidAnyLength(p) ==
  /\ Truthy(p.id)
  /\ Truthy(p.title)
  /\ Truthy(p.description)
  /\ Truthy(p.acceptance_criteria)
  /\ p.acceptance_criteria \in {"[]", "[c]"}
  /\ p.passes \in {"true", "false"}

\* the checks of validateFeature on the properties of an object
PropsValid(p) ==
  /\ Truthy(p.id)
  /\ Truthy(p.title)
  /\ Truthy(p.description)
  /\ Truthy(p.acceptance_criteria)
  /\ p.acceptance_criteria \in {"[]", "[c]"}
  /\ p.acceptance_criteria # "[]"
  /\ p.passes \in {"true", "false"}

\* FeatureAdderAgent.validateFeature: reading a property of null throws; a
\* number, an array or an object without the properties reads undefined
validateFeatureAdder(v) ==
  IF v.tag = "null" THEN [throws |-> TRUE, ok |-> FALSE]
  ELSE [throws |-> FALSE, ok |-> PropsValid(v.p)]

\* a validateFeature that only checks that the value is an object
validateFeatureShapeOnly(v) ==
  v.tag \in {"object", "array", "list"}

\* FeatureAtomizerAgent.validateFeature: feature && typeof feature === 'object' && ...
validateFeature(v) ==
  v.tag \in {"object", "array", "list"} /\ PropsValid(v.p)

Miss == [found |-> FALSE, value |-> JNull]
Hit(v) == [found |-> TRUE, value |-> v]

\* a try block that returns whatever JSON.parse accepted
TryOneUnvalidated(text) ==
  LET r == JSONparse(text)
  IN IF r.throws THEN Miss ELSE Hit(r.value)

\* try { JSON.parse(candidate); if (validateFeature(feature)) return feature } catch {}
TryOne(text) ==
  LET r == JSONparse(text)
      v == validateFeatureAdder(r.value)
  IN IF r.throws \/ v.throws \/ ~v.ok THEN Miss ELSE Hit(r.value)

\* try { JSON.parse(candidate); if (Array.isArray && every(validateFeature)) return } catch {}
TryMany(text) ==
  LET r == JSONparse(text)
  IN IF r.throws \/ r.value.tag # "array" THEN Miss
     ELSE IF \A i \in 1..Len(r.value.items) : validateFeature(r.value.items[i])
          THEN Hit(r.value)
          ELSE Miss

\* try { return JSON.parse(candidate) } catch {}: a text that parses ends the
\* search, whatever it parsed to
TryList(text) ==
  LET r == JSONparse(text)
  IN IF r.throws THEN [stop |-> FALSE, value |-> JNull]
     ELSE [stop |-> TRUE, value |-> r.value]

\* the candidates of one strategy, in the order it tries them (strategy 5 of
\* parseFeature loops over all its matches; the others have at most one)
RECURSIVE FirstHit(_, _)
FirstHit(matches, i) ==
  IF i > Len(matches) THEN Miss
  ELSE IF TryOne(matches[i]).found THEN TryOne(matches[i])
  ELSE FirstHit(matches, i + 1)

\* a cascade that ends at the first strategy that has a candidate, whether or
\* not the candidate is accepted
parseFeatureFromStopping(cands, k) ==
  IF k > Len(cands) THEN Miss ELSE FirstHit(cands[k], 1)

\* FeatureAdderAgent.parseFeature: strategies 1 to 5 in order, null at the end
RECURSIVE parseFeatureFrom(_, _)
parseFeatureFrom(cands, k) ==
  IF k > Len(cands) THEN Miss
  ELSE IF FirstHit(cands[k], 1).found THEN FirstHit(cands[k], 1)
  ELSE parseFeatureFrom(cands, k + 1)

parseFeature(cands) == parseFeatureFrom(cands, 1)

\* FeatureAtomizerAgent.parseFeatures: strategies 1 to 4 in order, null at the end
RECURSIVE parseFeaturesFrom(_, _)
parseFeaturesFrom(cands, k) ==
  IF k > Len(cands) THEN Miss
  ELSE IF Len(cands[k]) > 0 /\ TryMany(cands[k][1]).found THEN TryMany(cands[k][1])
  ELSE parseFeaturesFrom(cands, k + 1)

parseFeatures(cands) == parseFeaturesFrom(cands, 1)

\* InitializerAgent.parseFeatureList: whole text, fenced block, outermost braces
RECURSIVE parseFeatureListFrom(_, _)
parseFeatureListFrom(cands, k) ==
  IF k > Len(cands) THEN Miss
  ELSE IF Len(cands[k]) > 0 /\ TryList(cands[k][1]).stop
       THEN Hit(TryList(cands[k][1]).value)
  ELSE parseFeatureListFrom(cands, k + 1)

parseFeatureList(cands) == parseFeatureListFrom(cands, 1)

\* parseFeature / parseFeatures / parseFeatureList on result.output; add and
\* atomize have written result.output to their debug file just before
Extract ==
  /\ xpc = "output"
  /\ xpc' = "parsed"
  /\ xout' = (IF xkind = "add" THEN parseFeature(xcands)
              ELSE IF xkind = "atomize" THEN parseFeatures(xcands)
              ELSE parseFeatureList(xcands))
  /\ xdebug' = (xkind \in {"add", "atomize"})
  /\ UNCHANGED <<xkind, xcands, xlist, xres>>
  /\ UNCHANGED <<storeVars, histVars, handlerVars, saveVars, envVars, callVars, reportVars, toolVars>>

IdsOfItems(items) == {items[i].p.id : i \in 1..Len(items)}

\* addFeature / atomizeFeature / initialize from the parsed value to the
\* return: the null / empty check, validation, duplicate check, push and save
ExtractFinish ==
  /\ xpc = "parsed"
  /\ xpc' = "done"
  /\ IF xkind = "add"
     THEN IF ~xout.found
          THEN xres' = [success |-> FALSE, error |-> "unparsed"] /\ UNCHANGED xlist
          ELSE IF ~validateFeatureAdder(xout.value).ok
          THEN xres' = [success |-> FALSE, error |-> "invalid"] /\ UNCHANGED xlist
          ELSE IF xout.value.p.id \in IdsOfItems(xlist.items)
          THEN xres' = [success |-> FALSE, error |-> "duplicate"] /\ UNCHANGED xlist
          ELSE /\ xres' = [success |-> TRUE, error |-> "none"]
               /\ xlist' = JList(Append(xlist.items, xout.value))
     ELSE IF xkind = "atomize"
     THEN IF ~xout.found \/ Len(xout.value.items) = 0
          THEN xres' = [success |-> FALSE, error |-> "unparsed"] /\ UNCHANGED xlist
          ELSE IF \E i \in 1..Len(xout.value.items) : ~validateFeature(xout.value.items[i])
          THEN xres' = [success |-> FALSE, error |-> "invalid"] /\ UNCHANGED xlist
          ELSE IF IdsOfItems(xout.value.items) \cap IdsOfItems(xlist.items) # {}
          THEN xres' = [success |-> FALSE, error |-> "duplicate"] /\ UNCHANGED xlist
          ELSE /\ xres' = [success |-> TRUE, error |-> "none"]
               /\ xlist' = JList(xlist.items \o xout.value.items)
     ELSE IF ~xout.found \/ xout.value.tag = "null"
          THEN xres' = [success |-> FALSE, error |-> "unparsed"] /\ UNCHANGED xlist
          ELSE IF xout.value.tag = "number"
          THEN xres' = [success |-> FALSE, error |-> "exception"] /\ UNCHANGED xlist
          ELSE /\ xres' = [success |-> TRUE, error |-> "none"]
               /\ xlist' = xout.value
  /\ UNCHANGED <<xkind, xcands, xout, xdebug>>
  /\ UNCHANGED <<storeVars, histVars, handlerVars, saveVars, envVars, callVars, reportVars, toolVars>>

\* ---- the outputs the extractors are run on
G1 == GoodProps("F1", "false")
G2 == GoodProps("F2", "true")

\* G1 with one property absent, empty or of the wrong type
Defects ==
  { [G1 EXCEPT !.id = "undefined"], [G1 EXCEPT !.id = ""],
    [G1 EXCEPT !.title = "undefined"], [G1 EXCEPT !.title = ""],
    [G1 EXCEPT !.description = "undefined"], [G1 EXCEPT !.description = ""],
    [G1 EXCEPT !.acceptance_criteria = "undefined"],
    [G1 EXCEPT !.acceptance_criteria = "string"],
    [G1 EXCEPT !.acceptance_criteria = "[]"],
    [G1 EXCEPT !.passes = "undefined"], [G1 EXCEPT !.passes = "string"] }

NoCriteria == [G1 EXCEPT !.acceptance_criteria = "undefined"]

ObjectTexts == {JObject(G1), JObject(G2)} \cup {JObject(d) : d \in Defects}
\* what a brace-delimited substring can be
BraceTexts == ObjectTexts \cup {Garbage}
\* what a whole output or a fenced block can be
AnyTexts == BraceTexts \cup {JNull, JNumber, JArray(<<JObject(G1)>>)}
SmallTexts == {Garbage, JObject(G1), JObject(NoCriteria)}

OneOrNone(S) == {<<>>} \cup {<<t>> : t \in S}

Five(A, B, C, E) ==
  {<<a, b, c, e, f>> : a \in A, b \in B, c \in C, e \in E,
                       f \in SeqsUpTo(SmallTexts, MaxMatches)}

Rich(S) == {<<t>> : t \in S \ SmallTexts}

\* outputs for parseFeature: the text each of the five strategies picks (the
\* whole output for the first, none when a pattern does not match); at most
\* one of them outside SmallTexts, in the place `rich`
OneInputs(rich) ==
  LET one == {<<t>> : t \in SmallTexts}
      opt == OneOrNone(SmallTexts)
  IN CASE rich = 0 -> Five(one, opt, opt, opt)
       [] rich = 1 -> Five(Rich(AnyTexts), opt, opt, opt)
       [] rich = 2 -> Five(one, Rich(AnyTexts), opt, opt)
       [] rich = 3 -> Five(one, opt, Rich(BraceTexts), opt)
       [] rich = 4 -> Five(one, opt, opt, Rich(BraceTexts))

ArrayTexts ==
  { Garbage, JArray(<<>>), JArray(<<JObject(G1)>>), JArray(<<JObject(G1), JObject(G2)>>),
    JArray(<<JObject(G1), JObject(NoCriteria)>>),
    JArray(<<JObject([G1 EXCEPT !.acceptance_criteria = "[]"])>>),
    JArray(<<JNull>>) }

\* outputs for parseFeatures: strategies 2 to 4 pick bracket-delimited texts
ManyInputs ==
  {<<a, b, c, e>> :
     a \in {<<t>> : t \in ArrayTexts \cup {JNull, JObject(G1)}},
     b \in OneOrNone(ArrayTexts), c \in OneOrNone(ArrayTexts), e \in OneOrNone(ArrayTexts)}

ListTexts ==
  { Garbage, JNull, JNumber, JObject(G1), JArray(<<JObject(G1)>>), JList(<<>>),
    JList(<<JObject(G1)>>), JList(<<JObject(NoCriteria)>>),
    JList(<<JObject(G1), JObject(G1)>>) }

\* outputs for parseFeatureList: strategy 3 picks a brace-delimited text
ListInputs ==
  {<<a, b, c>> :
     a \in {<<t>> : t \in ListTexts}, b \in OneOrNone(ListTexts),
     c \in OneOrNone(ListTexts \ {JNull, JNumber, JArray(<<JObject(G1)>>)})}

\* add and atomize have loaded a feature list; init runs in a new directory
InitExtract ==
  /\ projectDir = TRUE /\ fileState = "ok" /\ features = <<>>
  /\ cmds = 0
  /\ RunIdle
  /\ AddIdle
  /\ sout = "none"
  /\ SaveIdle /\ EnvIdle /\ CallIdle /\ ReportIdle /\ ToolIdle
  /\ everDone = {} /\ sessFlips = {}
  /\ xpc = "output"
  /\ \/ xkind = "add" /\ \E rich \in 0..4 : xcands \in OneInputs(rich)
     \/ xkind = "atomize" /\ xcands \in ManyInputs
     \/ xkind = "init" /\ xcands \in ListInputs
  /\ xlist \in (IF xkind = "init" THEN {NoFile}
                ELSE {JList(<<>>), JList(<<JObject(G1)>>)})
  /\ xout = NoOut /\ xdebug = FALSE /\ xres = NoXRes

NextExtract ==
  \/ Extract
  \/ ExtractFinish

SpecExtract == InitExtract /\ [][NextExtract]_vars

\* ---------------------------------------------------------------- session alone
\* CodingAgent.runSession called on any workspace: no store, an unreadable one,
\* or any list of up to MaxLen generated features.
InitSession ==
  /\ projectDir = TRUE
  /\ \/ fileState = "ok" /\ features \in SeqsUpTo(Generated, MaxLen)
     \/ fileState \in {"absent", "corrupt"} /\ features = <<>>
  /\ cmds = 0
  /\ rpc = "build" /\ rmode = "run" /\ rfilter = "any"
  /\ session = 0 /\ maxSessions = 0
  /\ selected = NoTask /\ target = NoTask /\ collab = "none" /\ cerr = ""
  /\ result = NoResult /\ announced = FALSE
  /\ calls = 0 /\ pending0 = 0 /\ clean = TRUE /\ prevTarget = 0
  /\ AddIdle
  /\ sout = "none"
  /\ SideIdle
  /\ everDone = DoneNow(features) /\ sessFlips = {}

NextSession ==
  \/ SessionBuild
  \/ \E i \in 1..MaxLen : CollabFlip(i)
  \/ \E o \in {"success", "failure"}, e \in ErrorTexts : SessionCheck(o, e)
  \/ SessionReturned

SpecSession == InitSession /\ [][NextSession]_vars

\* ---------------------------------------------------------------- reset alone
\* String.prototype.toLowerCase on the answers of the prompt
toLowerCase(a) ==
  IF a = "S" THEN "s" ELSE IF a = "Y" THEN "y" ELSE IF a = "N" THEN "n" ELSE a

ResetAnswers == {"s", "S", "y", "Y", "n", "N", "", "x"}

\* reset command, every path: the list cannot be loaded (message, exit 1),
\* the answer is not s / y (message, exit 0), or every passes is set to false
\* and the list is saved
ResetCommand(answer) ==
  /\ rout = "none"
  /\ LET fl == loadFeatureList(fileState, features)
     IN IF ~fl.ok
        THEN /\ rout' = "notfound"
             /\ UNCHANGED <<features, histVars, loopHist>>
        ELSE IF toLowerCase(answer) # "s" /\ toLowerCase(answer) # "y"
        THEN /\ rout' = "cancelled"
             /\ UNCHANGED <<features, histVars, loopHist>>
        ELSE /\ rout' = "done"
             /\ features' = resetAll(fl.features)
             /\ History(features', TRUE)
             /\ Interferes
  /\ UNCHANGED <<projectDir, fileState, cmds, runVars, addVars, sout>>
  /\ UNCHANGED <<saveVars, extVars, envVars, callVars, reportVars, toolsButReset>>

\* the reset process has exited
ResetExit ==
  /\ rout # "none"
  /\ rout' = "none"
  /\ UNCHANGED <<storeVars, histVars, handlerVars>>
  /\ UNCHANGED <<saveVars, extVars, envVars, callVars, reportVars, toolsButReset>>

\* reset on every store: none, an unreadable one, any list of up to MaxLen features
InitReset ==
  /\ projectDir = TRUE
  /\ \/ fileState = "ok" /\ features \in SeqsUpTo(FeatureRec, MaxLen)
     \/ fileState \in {"absent", "corrupt"} /\ features = <<>>
  /\ cmds = 0
  /\ RunIdle
  /\ AddIdle
  /\ sout = "none"
  /\ SideIdle
  /\ everDone = DoneNow(features) /\ sessFlips = {}

NextReset ==
  \/ \E a \in ResetAnswers : ResetCommand(a)
  \/ ResetExit

SpecReset == InitReset /\ [][NextReset]_vars

\* ---------------------------------------------------------------- progress.log
\* the collaborator, while runAgentQuery is in flight, follows the prompt's
\* "append to progress.log" (or does not: the step is optional)
CollabAppend ==
  /\ rpc = "call"
  /\ progressFile = "ok"
  /\ Len(journal) < MaxJournal
  /\ journal' = Append(journal, [by |-> "collaborator", id |-> target.id])
  /\ UNCHANGED <<progressFile, gitRepo, dirReadable, callVars, reportVars, toolVars>>
  /\ UNCHANGED <<storeVars, histVars, handlerVars, saveVars, extVars>>

NextJournal ==
  \/ NextLoop
  \/ CollabAppend

SpecJournal == InitLoop /\ [][NextJournal]_vars

\* ---------------------------------------------------------------- progress.log as text
NL == "\n"

\* String.prototype.trim on a text of letters and newlines
RECURSIVE trimStart(_)
trimStart(t) ==
  IF t # <<>> /\ Head(t) = NL THEN trimStart(Tail(t)) ELSE t

RECURSIVE trimEnd(_)
trimEnd(t) ==
  IF t # <<>> /\ t[Len(t)] = NL THEN trimEnd(SubSeq(t, 1, Len(t) - 1)) ELSE t

trim(t) == trimEnd(trimStart(t))

\* position of the first "\n\n" in t at or after i, 0 when there is none
RECURSIVE indexOfBlank(_, _)
indexOfBlank(t, i) ==
  IF i >= Len(t) THEN 0
  ELSE IF t[i] = NL /\ t[i + 1] = NL THEN i
  ELSE indexOfBlank(t, i + 1)

\* String.prototype.split('\n\n')
RECURSIVE split(_)
split(t) ==
  LET i == indexOfBlank(t, 1)
  IN IF i = 0 THEN <<t>>
     ELSE <<SubSeq(t, 1, i - 1)>> \o split(SubSeq(t, i + 2, Len(t)))

\* Array.prototype.slice(-n) for n > 0
sliceLast(parts, n) ==
  IF n >= Len(parts) THEN parts ELSE SubSeq(parts, Len(parts) - n + 1, Len(parts))

\* Array.prototype.join('\n\n')
RECURSIVE join(_)
join(parts) ==
  IF parts = <<>> THEN <<>>
  ELSE IF Len(parts) = 1 THEN parts[1]
  ELSE parts[1] \o <<NL, NL>> \o join(Tail(parts))

\* ContextBuilder.getProgressLog on the content of progress.log
getProgressLogOf(file, content, lastN) ==
  IF file # "ok" THEN <<>>
  ELSE join(sliceLast(split(trim(content)), lastN))

\* ContextBuilder.appendToProgressLog: writeFile(entry) when the file does not
\* exist, appendFile('\n\n' + entry) when it does
appendToProgressLog(entry) ==
  /\ Len(pentries) < MaxAppends
  /\ progressFile \in {"absent", "ok"}
  /\ ptext' = (IF progressFile = "absent" THEN entry ELSE ptext \o <<NL, NL>> \o entry)
  /\ progressFile' = "ok"
  /\ pentries' = Append(pentries, entry)
  /\ UNCHANGED <<pread, toolsButLog, journal, gitRepo, dirReadable>>
  /\ UNCHANGED <<storeVars, histVars, handlerVars, saveVars, extVars, callVars, reportVars>>

\* a caller reads the log
ReadLog(lastN) ==
  /\ pread' = [lastN |-> lastN, text |-> getProgressLogOf(progressFile, ptext, lastN)]
  /\ UNCHANGED <<ptext, pentries, toolsButLog, envVars>>
  /\ UNCHANGED <<storeVars, histVars, handlerVars, saveVars, extVars, callVars, reportVars>>

Letters == {"a", "b", NL}

Texts == UNION {[1..n -> Letters] : n \in 1..MaxEntryLen}

\* the entries appended: texts without a blank line
LogEntries == {e \in Texts : indexOfBlank(e, 1) = 0}

\* the two lines the initializer writes, each ended by a newline
LogHeader == <<"a", NL, "b", NL>>

\* progress.log is missing, or is the file initialize created
InitLog ==
  /\ projectDir = TRUE /\ fileState = "ok" /\ features = <<>>
  /\ cmds = 0
  /\ RunIdle
  /\ AddIdle
  /\ sout = "none"
  /\ SaveIdle /\ ExtIdle /\ CallIdle /\ ReportIdle
  /\ everDone = {} /\ sessFlips = {}
  /\ journal = <<>> /\ gitRepo = TRUE /\ dirReadable = TRUE
  /\ rout = "none" /\ ScanIdle /\ QueryIdle /\ stats = NoStats
  /\ pentries = <<>> /\ pread = NoRead
  /\ \/ progressFile = "absent" /\ ptext = <<>>
     \/ progressFile = "ok" /\ ptext = LogHeader

NextLog ==
  \/ \E e \in LogEntries : appendToProgressLog(e)
  \/ \E n \in 1..MaxLastN : ReadLog(n)

SpecLog == InitLog /\ [][NextLog]_vars

\* ---------------------------------------------------------------- strategy 3 of parseFeature
\* An output is a sequence of tokens: "{", "}", "i" (the text
\* "id": "...", ... "title": "..." that featurePattern looks for) and "x" (any
\* other text without braces).

\* featurePattern at position p: "{", then no "}" up to an "i", then a "}" later
MatchesAt(t, p) ==
  /\ t[p] = "{"
  /\ \E q \in (p + 1)..Len(t) :
       /\ t[q] = "i"
       /\ \A k \in (p + 1)..(q - 1) : t[k] # "}"
       /\ \E r \in (q + 1)..Len(t) : t[r] = "}"

\* output.match(featurePattern) and output.indexOf(featureMatch[0]): the
\* leftmost position the pattern matches at, 0 for no match
RECURSIVE featureMatchFrom(_, _)
featureMatchFrom(t, p) ==
  IF p > Len(t) THEN 0
  ELSE IF MatchesAt(t, p) THEN p
  ELSE featureMatchFrom(t, p + 1)

\* a scan that ends at the first closing brace
RECURSIVE scanToFirstClose(_, _, _, _)
scanToFirstClose(t, i, braceCount, startIndex) ==
  IF i > Len(t) THEN startIndex - 1
  ELSE IF t[i] = "}" THEN i
  ELSE scanToFirstClose(t, i + 1, braceCount, startIndex)

\* the for loop of strategy 3 from position i with the count so far: the
\* position of the closing brace that brings the count to zero (endIndex - 1
\* of the source), startIndex - 1 when the loop runs off the end
RECURSIVE scanBraces(_, _, _, _)
scanBraces(t, i, braceCount, startIndex) ==
  IF i > Len(t) THEN startIndex - 1
  ELSE IF t[i] = "{" THEN scanBraces(t, i + 1, braceCount + 1, startIndex)
  ELSE IF t[i] = "}"
       THEN IF braceCount - 1 = 0 THEN i
            ELSE scanBraces(t, i + 1, braceCount - 1, startIndex)
  ELSE scanBraces(t, i + 1, braceCount, startIndex)

\* strategy 3 up to jsonStr = output.substring(startIndex, endIndex)
ScanCandidate ==
  /\ snext = "scan"
  /\ LET startIndex == featureMatchFrom(stext, 1)
         last == scanBraces(stext, startIndex, 0, startIndex)
     IN IF startIndex = 0
        THEN scand' = NoCand /\ snext' = "strategy4"
        ELSE /\ scand' = [matched |-> TRUE, startIndex |-> startIndex, endIndex |-> last + 1,
                          jsonStr |-> SubSeq(stext, startIndex, last)]
             /\ snext' = "try"
  /\ UNCHANGED <<stext, toolsButScan>>
  /\ UNCHANGED <<storeVars, histVars, handlerVars, saveVars, extVars, envVars, callVars, reportVars>>

\* try { JSON.parse(jsonStr); if (validateFeature) return } catch {}: the empty
\* string never parses; for another candidate `accepted` says whether it
\* parses to a valid feature
TryCandidate(accepted) ==
  /\ snext = "try"
  /\ snext' = (IF scand.jsonStr # <<>> /\ accepted THEN "returned" ELSE "strategy4")
  /\ UNCHANGED <<stext, scand, toolsButScan>>
  /\ UNCHANGED <<storeVars, histVars, handlerVars, saveVars, extVars, envVars, callVars, reportVars>>

Tokens == {"{", "}", "i", "x"}

InitScan ==
  /\ projectDir = TRUE /\ fileState = "ok" /\ features = <<>>
  /\ cmds = 0
  /\ RunIdle
  /\ AddIdle
  /\ sout = "none"
  /\ SaveIdle /\ ExtIdle /\ EnvIdle /\ CallIdle /\ ReportIdle
  /\ everDone = {} /\ sessFlips = {}
  /\ rout = "none" /\ LogIdle /\ QueryIdle /\ stats = NoStats
  /\ stext \in UNION {[1..n -> Tokens] : n \in 0..MaxTextLen}
  /\ scand = NoCand /\ snext = "scan"

NextScan ==
  \/ ScanCandidate
  \/ \E accepted \in BOOLEAN : TryCandidate(accepted)

SpecScan == InitScan /\ [][NextScan]_vars

\* ---------------------------------------------------------------- runAgentQuery
\* what the stream of query() yields: an assistant message, a result message
\* of subtype success, a result of another subtype without or with errors,
\* or an exception thrown by the iteration (or by a callback)
Messages == {"assistant", "success", "failure", "failure_errors", "throw"}

\* a loop body in which a non-success result leaves success as it is
handleMessageSticky(st, message) ==
  IF message = "success" THEN [st EXCEPT !.success = TRUE]
  ELSE IF message = "failure_errors" THEN [st EXCEPT !.error = "errors"]
  ELSE st

\* the body of the for await loop: success and error after the message
handleMessage(st, message) ==
  IF message = "success" THEN [st EXCEPT !.success = TRUE]
  ELSE IF message = "failure" THEN [st EXCEPT !.success = FALSE]
  ELSE IF message = "failure_errors" THEN [success |-> FALSE, error |-> "errors"]
  ELSE st

\* one iteration of the for await loop; an exception goes to the catch, which
\* returns { success: false, output, error: err.message }
QueryMessage ==
  /\ qpc = "stream"
  /\ qpos <= Len(qin)
  /\ IF qin[qpos] = "throw"
     THEN /\ qpc' = "returned"
          /\ qres' = [success |-> FALSE, error |-> "exception"]
          /\ UNCHANGED <<qst, qpos>>
     ELSE /\ qst' = handleMessage(qst, qin[qpos])
          /\ qpos' = qpos + 1
          /\ UNCHANGED <<qpc, qres>>
  /\ UNCHANGED <<qin, toolsButQuery>>
  /\ UNCHANGED <<storeVars, histVars, handlerVars, saveVars, extVars, envVars, callVars, reportVars>>

\* the stream has ended: return { success, output, error? }
QueryEnd ==
  /\ qpc = "stream"
  /\ qpos > Len(qin)
  /\ qpc' = "returned"
  /\ qres' = qst
  /\ UNCHANGED <<qin, qpos, qst, toolsButQuery>>
  /\ UNCHANGED <<storeVars, histVars, handlerVars, saveVars, extVars, envVars, callVars, reportVars>>

InitQuery ==
  /\ projectDir = TRUE /\ fileState = "ok" /\ features = <<>>
  /\ cmds = 0
  /\ RunIdle
  /\ AddIdle
  /\ sout = "none"
  /\ SaveIdle /\ ExtIdle /\ EnvIdle /\ CallIdle /\ ReportIdle
  /\ everDone = {} /\ sessFlips = {}
  /\ rout = "none" /\ LogIdle /\ ScanIdle /\ stats = NoStats
  /\ qpc = "stream"
  /\ qin \in UNION {[1..n -> Messages] : n \in 0..MaxStream}
  /\ qpos = 1 /\ qst = NoQuery /\ qres = NoQuery

NextQuery ==
  \/ QueryMessage
  \/ QueryEnd

SpecQuery == InitQuery /\ [][NextQuery]_vars

\* ---------------------------------------------------------------- session inputs
\* every FeatureType, an absent type and a type outside the union
AllTypes == {"none", "feature", "refactoring", "bugfix", "improvement", "docs", "unknown"}

TypedTasks == {[id |-> "F1", type |-> t, passes |-> b] : t \in AllTypes, b \in BOOLEAN}

SessionStart ==
  /\ cmds = 0
  /\ rpc = "build" /\ rmode = "run" /\ rfilter = "any"
  /\ session = 0 /\ maxSessions = 0
  /\ selected = NoTask /\ target = NoTask /\ collab = "none" /\ cerr = ""
  /\ result = NoResult /\ announced = FALSE
  /\ calls = 0 /\ pending0 = 0 /\ clean = TRUE /\ prevTarget = 0
  /\ AddIdle
  /\ sout = "none"
  /\ everDone = DoneNow(features) /\ sessFlips = {}

\* runSession on lists whose features carry any type
InitPersona ==
  /\ projectDir = TRUE
  /\ fileState = "ok" /\ features \in SeqsUpTo(TypedTasks, MaxLen)
  /\ SessionStart
  /\ SideIdle

SpecPersona == InitPersona /\ [][NextSession]_vars

\* runSession in any workspace: progress.log missing, unreadable or holding
\* entries, with or without git history, listable or not
InitContext ==
  /\ projectDir = TRUE
  /\ \/ fileState = "ok" /\ features \in SeqsUpTo(Generated, MaxLen)
     \/ fileState \in {"absent", "corrupt"} /\ features = <<>>
  /\ SessionStart
  /\ SaveIdle /\ ExtIdle /\ CallIdle /\ ReportIdle /\ ToolIdle
  /\ progressFile \in {"absent", "unreadable", "ok"}
  /\ journal \in (IF progressFile = "absent" THEN {<<>>}
                  ELSE {<<>>, <<[by |-> "collaborator", id |-> "F1"]>>})
  /\ gitRepo \in BOOLEAN
  /\ dirReadable \in BOOLEAN

SpecContext == InitContext /\ [][NextSession]_vars

\* ---------------------------------------------------------------- progress statistics
\* Math.round(x / y * 100) for y > 0: the nearest integer, halves upwards
roundPercent(x, y) == (200 * x + y) \div (2 * y)

\* feature.type || 'feature'
typeKey(f) == IF f.type = "none" THEN "feature" ELSE f.type

\* ContextBuilder.getProgressStatsByType (getProgressStats returns the same
\* total, completed, pending and percentage without byType)
getProgressStatsByType(fs, feats) ==
  LET fl == loadFeatureList(fs, feats)
      list == fl.features
      total == Len(list)
      completed == Cardinality({i \in 1..Len(list) : list[i].passes})
      keys == {typeKey(list[i]) : i \in 1..Len(list)}
  IN IF ~fl.ok THEN [NoStats EXCEPT !.computed = TRUE]
     ELSE [computed |-> TRUE,
           total |-> total,
           completed |-> completed,
           pending |-> total - completed,
           percentage |-> IF total > 0 THEN roundPercent(completed, total) ELSE 0,
           byType |-> [t \in keys |->
              [completed |-> Cardinality({i \in 1..Len(list) :
                                           typeKey(list[i]) = t /\ list[i].passes}),
               pending |-> Cardinality({i \in 1..Len(list) :
                                         typeKey(list[i]) = t /\ ~list[i].passes})]]]

\* a caller (status, the loop's final status) takes the statistics
GetStats ==
  /\ ~stats.computed
  /\ stats' = getProgressStatsByType(fileState, features)
  /\ UNCHANGED toolsButStats
  /\ UNCHANGED <<storeVars, histVars, handlerVars, saveVars, extVars, envVars, callVars, reportVars>>

\* the caller has printed them
StatsShown ==
  /\ stats.computed
  /\ stats' = NoStats
  /\ UNCHANGED toolsButStats
  /\ UNCHANGED <<storeVars, histVars, handlerVars, saveVars, extVars, envVars, callVars, reportVars>>

\* a list of n features of which the first c pass, the types taking turns
LongList(n, c) ==
  [i \in 1..n |->
     [id |-> "F1",
      type |-> IF i % 3 = 0 THEN "bugfix" ELSE IF i % 3 = 1 THEN "none" ELSE "feature",
      passes |-> i <= c]]

InitStats ==
  /\ projectDir = TRUE
  /\ \/ fileState = "ok" /\ features \in SeqsUpTo(TypedTasks, 2)
     \/ fileState = "ok" /\ \E n \in 3..MaxTotal :
                               \E c \in {0, 1, n \div 2, n - 1, n} :
                                  features = LongList(n, c)
     \/ fileState \in {"absent", "corrupt"} /\ features = <<>>
  /\ cmds = 0
  /\ RunIdle
  /\ AddIdle
  /\ sout = "none"
  /\ SideIdle
  /\ everDone = {} /\ sessFlips = {}

NextStats ==
  \/ GetStats
  \/ StatsShown

SpecStats == InitStats /\ [][NextStats]_vars

\* ---------------------------------------------------------------- properties
\* the category of a task: an absent type field counts as 'feature'
Category(type) == IF type = "none" THEN "feature" ELSE type

\* a task is eligible for a filter when it is pending and of the filter's category
Eligible(f, filter) == ~f.passes /\ (filter = "any" \/ Category(f.type) = filter)

EarliestEligible(i, filter) ==
  /\ i \in 0..Len(Tasks)
  /\ i = 0 => \A j \in 1..Len(Tasks) : ~Eligible(Tasks[j], filter)
  /\ i # 0 => /\ Eligible(Tasks[i], filter)
              /\ \A j \in 1..(i - 1) : ~Eligible(Tasks[j], filter)

\* C1: for every task list and every filter, next-task selection returns the
\* earliest task in list order that is pending and of the filter's category
\* (an untyped task counts as 'feature' only), or none when there is no such
\* task, however many done tasks precede it; the run command hands exactly
\* that task on.
C1_SelectsEarliestEligible ==
  /\ \A filter \in Filters :
       EarliestEligible(cliSelect(fileState, features, filter), filter)
  /\ rpc = "build" =>
       /\ selected.idx # 0
       /\ EarliestEligible(selected.idx, rfilter)
       /\ selected = TaskAt(features, selected.idx)

\* a 'feature' run that skips a done task and a pending bugfix and picks the
\* untyped third task
C1_Witness ==
  /\ rpc = "build" /\ rfilter = "feature"
  /\ Len(features) = 3
  /\ features[1].passes
  /\ ~features[2].passes /\ features[2].type = "bugfix"
  /\ selected.idx = 3 /\ selected.type = "none"

\* C2: under a category filter the task the session targets is the task the
\* CLI selected, and it is of the filter's category.
C2_SessionTargetsSelection ==
  rpc = "call" =>
    /\ target.idx = selected.idx
    /\ rfilter # "any" => Category(target.type) = rfilter

\* the target's done flag in the store: the task is looked up by its id, the
\* only identity a task has across two reads of the store
TargetDoneInStore ==
  /\ fileState = "ok"
  /\ \E i \in 1..Len(features) :
       /\ features[i].id = target.id
       /\ features[i].passes
       /\ \A j \in 1..(i - 1) : features[j].id # target.id

SessionReturns == rpc = "call" /\ rpc' = "returned"

\* the ids of the stored tasks are pairwise distinct
DistinctIds(list) ==
  \A i, j \in 1..Len(list) : i # j => list[i].id # list[j].id

\* C3: after the collaborator call ends, with success or with failure,
\* runSession returns success exactly when the target's done flag is true in
\* the store (stated over stores of distinct ids, where the target's id
\* names one task).
C3_VerdictIsStoreTruth ==
  [][(SessionReturns /\ DistinctIds(Tasks))
       => (result'.success <=> TargetDoneInStore)]_vars

\* C4: a collaborator that reports success while the target's done flag is
\* still false in the store gets a failed session.
C4_SelfReportNotTrusted ==
  [][(SessionReturns /\ collab' = "success" /\ ~TargetDoneInStore)
       => ~result'.success]_vars

\* a session over a queue of two or more tasks whose collaborator reported
\* success without flipping anything, returned as incomplete
C4_Witness ==
  /\ rpc = "returned" /\ collab = "success"
  /\ result.kind = "incomplete" /\ ~result.success
  /\ Len(features) >= 2
  /\ \A i \in 1..Len(features) : ~features[i].passes

\* C5: a task whose done flag has been true in the store since the last bulk
\* reset is never again the target of a session.
C5_NeverReselected ==
  [][(rpc = "build" /\ rpc' = "call") => target'.idx \notin everDone]_vars

\* C6: no step other than the bulk reset stores done=false for a task that
\* was stored with done=true.
C6_DoneIsKept ==
  [][Reset(TRUE) \/
     \A i \in 1..Len(features) :
       (features[i].passes /\ fileState' = "ok" /\ i <= Len(features')
          /\ features'[i].id = features[i].id) => features'[i].passes]_vars

\* C7: from the selection of a session's target to the re-read of the store,
\* at most one task goes from done=false to done=true.
C7_OneFlipPerSession ==
  rpc \in {"call", "returned"} => Cardinality(sessFlips) <= 1

\* C8: the ids of the stored task list are pairwise distinct.
C8_DistinctIds == DistinctIds(Tasks)

AddReturns == apc = "call" /\ apc' = "returned"

\* C9: an add or atomize whose incoming task(s) include an id of the list it
\* loaded returns failure and writes nothing.
C9_DuplicateRejectsAll ==
  [][(AddReturns /\ \E k \in 1..Len(aincoming') : aincoming'[k].id \in IdsOf(alist))
       => (aresult' = "duplicate" /\ features' = features /\ fileState' = fileState)]_vars

\* an atomize batch of two rejected for one colliding id, the other id absent
\* from the store
C9_Witness ==
  /\ apc = "returned" /\ aresult = "duplicate"
  /\ Len(aincoming) = 2
  /\ fileState = "ok" /\ Len(features) = 1
  /\ \E k \in 1..2 : aincoming[k].id \in IdsOf(features)
  /\ \E k \in 1..2 : aincoming[k].id \notin IdsOf(features)

\* C10: a successful add or atomize stores the list it loaded followed by the
\* new task(s) in the order produced.
C10_AppendOnly ==
  [][(AddReturns /\ aresult' = "ok")
       => /\ fileState' = "ok"
          /\ Len(aincoming') >= 1
          /\ Len(features') = Len(alist) + Len(aincoming')
          /\ SubSeq(features', 1, Len(alist)) = alist
          /\ SubSeq(features', Len(alist) + 1, Len(features')) = aincoming']_vars

\* an atomize that appended two tasks behind an existing one
C10_Witness ==
  /\ apc = "returned" /\ aresult = "ok"
  /\ Len(aincoming) = 2 /\ Len(features) = 3
  /\ SubSeq(features, 2, 3) = aincoming

\* C11: a task that appears in the store has done=false when it appears, and
\* a done flag goes from false to true only by the collaborator of a session
\* whose target is that task.
C11_DoneOnlyBySession ==
  [][\A i \in 1..Len(features') :
       (fileState' = "ok" /\ features'[i].passes
          /\ ~(i <= Len(Tasks) /\ Tasks[i].passes))
         => (rpc = "call" /\ i <= Len(Tasks) /\ target.idx = i)]_vars

\* C12: the loop invokes the collaborator at most maxSessions times and stops
\* when the session counter reaches maxSessions; with maxSessions = 1 one
\* session is executed and at most one task is flipped.
C12_LoopBounded ==
  rmode = "loop" =>
    /\ calls <= session
    /\ session <= maxSessions
    /\ (maxSessions = 1 /\ rpc \in {"call", "returned"}) => Cardinality(sessFlips) <= 1

\* an unfiltered loop whose sessions so far each flipped their target and
\* nothing else, started with fewer pending tasks than its session cap
AllSessionsFlip ==
  rmode = "loop" /\ rpc # "idle" /\ rfilter = "any" /\ clean /\ maxSessions > pending0

\* sessions of the running loop that are over (sessFlips holds the flips of
\* the one in progress)
SessionsEnded == IF rpc \in {"call", "returned"} THEN calls - 1 ELSE calls

\* C13: with n pending tasks, maxSessions greater than n and every session
\* flipping its target, the loop runs exactly n sessions that target the
\* pending tasks in list order, then reports that all are complete, and the
\* collaborator is never invoked an (n+1)-th time.
C13_RunsToDone ==
  AllSessionsFlip =>
    /\ calls <= pending0
    /\ PendingCount(Tasks) + SessionsEnded + Cardinality(sessFlips) = pending0
    /\ rpc = "call" =>
         /\ prevTarget < target.idx
         /\ \A j \in 1..(target.idx - 1) : Tasks[j].passes
    /\ rpc = "final" =>
         /\ announced
         /\ calls = pending0
         /\ PendingCount(Tasks) = 0

C13_Witness ==
  /\ AllSessionsFlip
  /\ rpc = "final" /\ announced
  /\ pending0 = 2 /\ calls = 2 /\ prevTarget = Len(Tasks)

\* C14: when the loop stops because the session counter reached maxSessions,
\* it reports that all tasks are complete exactly if no eligible task remains
\* in the store.
C14_CapExitReportsDone ==
  [][(rpc = "select" /\ rpc' = "final" /\ fileState = "ok"
        /\ maxSessions >= 1 /\ session = maxSessions)
       => (announced' <=> cliSelect(fileState, features, rfilter) = 0)]_vars

\* C15: a failed or incomplete session never stops the loop (it goes back to
\* selecting, and the loop ends only at the session cap or on an empty
\* selection); while the task a session targeted is not flipped to done, the
\* next session targets that same task and no later one.
C15_FailedSessionRetried ==
  [][rmode = "loop" =>
       /\ (rpc = "returned" /\ rpc' # rpc) => rpc' = "select"
       /\ (rpc = "select" /\ rpc' = "final") => (session = maxSessions \/ announced')
       /\ (rpc = "build" /\ rpc' = "call" /\ prevTarget # 0
             /\ ~Tasks[prevTarget].passes)
            => target'.idx = prevTarget]_vars

C15_Witness ==
  /\ rmode = "loop" /\ rpc = "call" /\ session = 2
  /\ prevTarget # 0 /\ target.idx = prevTarget
  /\ \E j \in (prevTarget + 1)..Len(Tasks) : ~Tasks[j].passes

\* C16: when the store cannot be read at the moment the loop selects the next
\* task, the run aborts with an error and the loop does not report that all
\* tasks are complete.
C16_UnreadableStoreAborts ==
  [][(rpc = "select" /\ session < maxSessions /\ fileState # "ok")
       => (rpc' = "failed" /\ ~announced')]_vars

\* C17: when the collaborator call fails (it threw, crashed or ended without
\* a result), runSession returns success = false for the selected task, and
\* its error field is the collaborator's error text, unchanged, whenever
\* there is one.
C17_TransportErrorSurfaced ==
  [][(rpc = "call" /\ rpc' = "returned" /\ collab' = "failure")
       => /\ ~result'.success
          /\ result'.featureId = target.id
          /\ result'.error # ""
          /\ cerr' # "" => result'.error = cerr']_vars

C17_Witness ==
  /\ rpc = "returned" /\ collab = "failure"
  /\ cerr = "E1" /\ result.error = "E1"
  /\ ~result.success /\ result.featureId \in Ids

\* C18: runSession itself never writes the Task Store: in every outcome its
\* own steps leave feature_list.json as it is, so that every change during a
\* session is one made by the collaborator or by another writer.
C18_SessionNeverWrites ==
  [][(rpc \in {"build", "call"} /\ rpc' # rpc) => UNCHANGED storeVars]_vars

C18_Witness ==
  /\ rpc = "returned" /\ result.kind = "completed"
  /\ sessFlips # {}

\* C19: when no eligible task exists runSession returns at once, without
\* invoking the collaborator, success = false and an empty task id, and this
\* queue-empty result is given for nothing else: not for a missing or
\* unreadable store.
C19_QueueEmptyDistinct ==
  (rpc = "returned" /\ calls = 0) =>
    /\ ~result.success
    /\ result.featureId = ""
    /\ result.error = "nopending" => (fileState = "ok" /\ PendingCount(Tasks) = 0)

\* C20: run, loop, add, atomize and status invoked on a workspace that has no
\* feature_list.json end with an error, before any collaborator invocation
\* and without creating or writing the store.
C20_NoStoreIsFatal ==
  [][fileState = "absent" =>
       /\ UNCHANGED storeVars
       /\ calls' = 0 /\ rpc' \in {"idle", "failed"} /\ apc' \in {"idle", "returned"}
       /\ (rpc = "idle" /\ cmds' # cmds /\ apc' = apc) => rpc' = "failed"
       /\ (apc = "idle" /\ apc' # "idle") => aresult' = "exit"
       /\ (sout = "none" /\ sout' # "none") => sout' = "notfound"]_vars

C20_Witness ==
  /\ fileState = "absent"
  /\ rpc = "failed" /\ apc = "returned" /\ aresult = "exit" /\ sout = "notfound"

\* C21: a load that runs while a save of the Task List is in progress returns
\* either the complete list from before the save or the complete list from
\* after it, never a failed or empty read.
C21_LoadSeesWholeList ==
  [][(Load /\ wpc = "truncated")
       => (loaded'.ok /\ loaded'.features \in {wold.features, wlist})]_vars

\* ---------------------------------------------------------------- extraction
\* the Task validation predicate, stated on the value itself
ValidTask(v) ==
  /\ v.tag = "object"
  /\ v.p.id \notin {"undefined", ""}
  /\ v.p.title \notin {"undefined", ""}
  /\ v.p.description \notin {"undefined", ""}
  /\ v.p.acceptance_criteria = "[c]"
  /\ v.p.passes \in {"true", "false"}

ValidArray(v) ==
  v.tag = "array" /\ \A i \in 1..Len(v.items) : ValidTask(v.items[i])

Extracted == xpc \in {"parsed", "done"}

\* C22: a task returned by parseFeature, and every element of an array returned
\* by parseFeatures, has non-empty id, title and description, a non-empty
\* list of acceptance criteria and a boolean passes, whatever the output was.
C22_ExtractedTasksValid ==
  (Extracted /\ xout.found) =>
     /\ xkind = "add" => ValidTask(xout.value)
     /\ xkind = "atomize" => ValidArray(xout.value)

LacksCriteria(v) == v.tag = "object" /\ v.p.acceptance_criteria \in {"undefined", "[]"}

\* an earlier candidate without criteria was passed over and a task returned
C22_Witness ==
  \/ /\ xkind = "add" /\ Extracted /\ xout.found
     /\ LacksCriteria(xcands[1][1])
  \/ /\ xkind = "atomize" /\ Extracted /\ xout.found /\ Len(xout.value.items) = 2
     /\ xcands[1][1].tag = "array"
     /\ \E i \in 1..Len(xcands[1][1].items) : LacksCriteria(xcands[1][1].items[i])

\* the texts of all strategies in the order the cascade tries them
RECURSIVE Flatten(_)
Flatten(cands) ==
  IF cands = <<>> THEN <<>> ELSE Head(cands) \o Flatten(Tail(cands))

Acceptable(t) == IF xkind = "add" THEN ValidTask(t) ELSE ValidArray(t)

\* C23: the result is the candidate of the first strategy in cascade order whose
\* candidate parses and passes validation: rejected candidates before it do
\* not stop the cascade, and no later candidate replaces it.
C23_FirstAcceptedWins ==
  (Extracted /\ xkind \in {"add", "atomize"}) =>
     LET texts == Flatten(xcands)
         ok == {i \in 1..Len(texts) : Acceptable(texts[i])}
     IN IF ok = {} THEN ~xout.found
        ELSE /\ xout.found
             /\ \E i \in ok : xout.value = texts[i] /\ \A j \in ok : i <= j

\* a rejected candidate came first and a different acceptable one came later
C23_Witness ==
  /\ xkind = "add" /\ Extracted /\ xout.found
  /\ ~Acceptable(xcands[1][1])
  /\ xout.value = JObject(G2)
  /\ \E k \in 3..5 : Len(xcands[k]) > 0 /\ xcands[k][1] = JObject(G1)

NoneAccepted ==
  \A k \in 1..Len(xcands) : \A i \in 1..Len(xcands[k]) :
     \/ ~Acceptable(xcands[k][i])
     \/ xkind = "atomize" /\ xcands[k][i].items = <<>>

Rejected == xpc = "done" /\ xres.error \in {"unparsed", "invalid", "exception"}

\* C25: when add, atomize or initialize returns a failure because the
\* collaborator output was rejected, the raw output has been written to a file.
C25_RejectedOutputKept ==
  Rejected => xdebug

\* C26: every task of a persisted feature list satisfies the validation
\* predicate, and what is persisted is a feature list.
C26_PersistedTasksValid ==
  xlist # NoFile =>
     /\ xlist.tag = "list"
     /\ \A i \in 1..Len(xlist.items) : ValidTask(xlist.items[i])

\* ---------------------------------------------------------------- journal
CoreEntries == {i \in 1..Len(journal) : journal[i].by = "core"}

\* C27: every executed session of a loop has made the core append exactly one
\* entry to progress.log: after k sessions the journal holds k entries of the
\* core more than before.
C27_OneEntryPerSession ==
  rmode = "loop" => Cardinality(CoreEntries) = SessionsEnded

\* ---------------------------------------------------------------- one call at a time
\* C28: at most one collaborator call of the run/loop process is in flight, and
\* only while a session is running: the caller gets the result, and the loop
\* selects again, when no call is pending.
C28_OneCallInFlight ==
  /\ inflight \in {0, 1}
  /\ inflight = 1 <=> rpc = "call"

\* the second session of a loop is running
C28_Witness ==
  rmode = "loop" /\ rpc = "call" /\ calls = 2 /\ inflight = 1

\* ---------------------------------------------------------------- persona
Dedicated == {"feature", "refactoring", "bugfix", "improvement", "docs"}

ProfileOf(category) ==
  CASE category = "feature" -> "CODING_AGENT_SYSTEM_PROMPT"
    [] category = "refactoring" -> "REFACTORING_AGENT_SYSTEM_PROMPT"
    [] category = "bugfix" -> "BUGFIX_AGENT_SYSTEM_PROMPT"
    [] category = "improvement" -> "IMPROVEMENT_AGENT_SYSTEM_PROMPT"
    [] category = "docs" -> "DOCS_AGENT_SYSTEM_PROMPT"

\* C29: the system prompt of a session is the profile of the target's type:
\* feature, refactoring, bugfix, improvement and docs each have their own,
\* and an absent or unknown type gets the profile of 'feature'.
C29_PersonaByCategory ==
  rpc = "call" =>
     /\ persona = ProfileOf(IF target.type \in Dedicated THEN target.type ELSE "feature")
     /\ \A t \in Dedicated :
          (target.type \in Dedicated /\ t # target.type)
             => persona # getSystemPromptForType(t)

C29_Witness ==
  rpc = "call" /\ target.type = "unknown" /\ persona = "CODING_AGENT_SYSTEM_PROMPT"

\* ---------------------------------------------------------------- context assembly
PendingExists ==
  fileState = "ok" /\ \E i \in 1..Len(features) : ~features[i].passes

C31_VerdictIgnoresCommit ==
  [][(rpc = "call" /\ rpc' = "returned" /\ collab' = "success")
       => /\ result'.success = TargetPasses(fileState, features, target)
          /\ commitHash' = "undefined" <=> ~gitRepo]_vars

\* a session returned success although no commit reference was captured
C31_Witness ==
  rpc = "returned" /\ result.success /\ ~gitRepo /\ commitHash = "undefined"

\* ---------------------------------------------------------------- reset
SameButPasses(old, new) ==
  /\ Len(new) = Len(old)
  /\ \A i \in 1..Len(old) :
       /\ new[i].id = old[i].id
       /\ new[i].type = old[i].type
       /\ new[i].passes = FALSE

\* C32: a confirmed reset leaves every task with passes = false and the ids,
\* order, length and other fields as they were; a declined reset leaves the
\* store unchanged; a reset without a readable store fails and creates none.
C32_ResetOnlyClearsPasses ==
  [][\A a \in ResetAnswers :
       ResetCommand(a) =>
          IF fileState # "ok"
          THEN rout' = "notfound" /\ UNCHANGED storeVars
          ELSE IF a \in {"s", "S", "y", "Y"}
          THEN /\ rout' = "done"
               /\ SameButPasses(features, features')
               /\ UNCHANGED <<projectDir, fileState>>
          ELSE rout' = "cancelled" /\ UNCHANGED storeVars]_vars

\* a list with a typed task has been reset
C32_Witness ==
  /\ rout = "done" /\ Len(features) >= 2
  /\ features[2].type = "bugfix" /\ ~features[2].passes

\* ---------------------------------------------------------------- progress.log text
IsPrefix(a, b) == Len(a) <= Len(b) /\ SubSeq(b, 1, Len(a)) = a

\* C33: an append never alters what progress.log already holds, and
\* getProgressLog(N) returns the last min(N, count) appended entries, in
\* append order and separated by a blank line.
C33_JournalRoundTrips ==
  [][/\ \A e \in LogEntries : appendToProgressLog(e) => IsPrefix(ptext, ptext')
     /\ \A n \in 1..MaxLastN :
          ReadLog(n) => pread'.text = join(sliceLast(pentries, n))]_vars

\* ---------------------------------------------------------------- brace scan
Count(t, a, b, c) == Cardinality({k \in a..b : t[k] = c})

Depth(t, a, b) == Count(t, a, b, "{") - Count(t, a, b, "}")

\* the positions at or after a where the brace depth counted from a is zero
ZeroDepth(t, a) == {j \in a..Len(t) : Depth(t, a, j) = 0}

\* C34: the candidate of strategy 3 begins at the matched opening brace and
\* ends at the first position where the brace depth is back to zero, so it is
\* brace-balanced; when the depth never returns to zero the candidate is
\* empty, it is rejected and parseFeature goes on to strategy 4.
C34_ScanYieldsBalancedCandidate ==
  scand.matched =>
     /\ stext[scand.startIndex] = "{"
     /\ IF ZeroDepth(stext, scand.startIndex) = {}
        THEN scand.jsonStr = <<>> /\ snext \in {"try", "strategy4"}
        ELSE /\ scand.endIndex - 1 \in ZeroDepth(stext, scand.startIndex)
             /\ \A j \in ZeroDepth(stext, scand.startIndex) : scand.endIndex - 1 <= j
             /\ scand.jsonStr = SubSeq(stext, scand.startIndex, scand.endIndex - 1)
             /\ Head(scand.jsonStr) = "{"
             /\ Depth(scand.jsonStr, 1, Len(scand.jsonStr)) = 0

\* an object with an unclosed nested brace gave the empty candidate and was
\* passed on to strategy 4
C34_Witness ==
  /\ scand.matched /\ scand.jsonStr = <<>> /\ snext = "strategy4"
  /\ \E k \in 2..Len(stext) : stext[k] = "{"

\* ---------------------------------------------------------------- collaborator call
ResultMessages == {i \in 1..Len(qin) : qin[i] \in {"success", "failure", "failure_errors"}}

LastResult == CHOOSE i \in ResultMessages : \A j \in ResultMessages : j <= i

\* C35: runAgentQuery always returns a result: success = true exactly when the
\* stream ended without an exception and its last result message was of
\* subtype success; no result message, a last result of another subtype, or
\* an exception give success = false.
C35_QueryAlwaysReturns ==
  /\ qpc # "rejected"
  /\ qpc = "returned" =>
       (qres.success <=>
          /\ \A i \in 1..Len(qin) : qin[i] # "throw"
          /\ ResultMessages # {}
          /\ qin[LastResult] = "success")

\* the stream threw after a success result had been delivered
C35_Witness ==
  /\ qpc = "returned" /\ ~qres.success /\ qres.error = "exception"
  /\ Len(qin) >= 2 /\ qin[1] = "success" /\ qin[2] = "throw"

\* ---------------------------------------------------------------- final summary
\* C36: the session count the loop prints in its final status is the number
\* of sessions it executed (collaborator invocations), also when the loop
\* ended because no pending feature was found.
C36_SummaryCountsSessions ==
  (rmode = "loop" /\ rpc = "final") => session = calls

\* ---------------------------------------------------------------- failed init
\* C37: an initialize that returns success = false leaves the workspace as it
\* was: no project directory, feature list or journal remains from it.
C37_FailedInitLeavesNothing ==
  [][\A a \in Answers("init") :
       (Initialize(a) /\ a.kind # "parsed") => UNCHANGED storeVars]_vars

\* ---------------------------------------------------------------- statistics
RECURSIVE SumOver(_, _, _)
SumOver(f, S, field) ==
  IF S = {} THEN 0
  ELSE LET t == CHOOSE x \in S : TRUE
       IN (IF field = "completed" THEN f[t].completed ELSE f[t].pending)
          + SumOver(f, S \ {t}, field)

\* C38: the statistics of any list satisfy completed + pending = total,
\* 0 <= percentage <= 100, percentage = 0 for an empty list, percentage = 100
\* only when every task passes, and the per-type counts add up to the
\* overall counts.
C38_StatsConsistent ==
  stats.computed =>
     /\ stats.completed + stats.pending = stats.total
     /\ stats.percentage \in 0..100
     /\ stats.total = 0 => stats.percentage = 0
     /\ stats.percentage = 100 => stats.completed = stats.total
     /\ SumOver(stats.byType, DOMAIN stats.byType, "completed") = stats.completed
     /\ SumOver(stats.byType, DOMAIN stats.byType, "pending") = stats.pending


====
